---- MODULE Spec2Model ----
(***************************************************************************)
(* Verification model of hwp-rs: the record decoder                        *)
(* (hwp-parser/src/parser/record.rs, validator/mod.rs), the FAT chain      *)
(* walker (cfb/fat.rs) and the compound-file container (cfb/header.rs,     *)
(* cfb/container.rs, cfb/directory.rs, cfb/stream.rs), the DocInfo and     *)
(* section parsers (parser/doc_info.rs, parser/section.rs) and stream      *)
(* decompression (compression/mod.rs, parser/mod.rs).                      *)
(*                                                                         *)
(* Bytes are the integers 0..255 and a buffer is a sequence of bytes.      *)
(* Reader positions are 0-based as in the source; the byte at position p   *)
(* is element p+1 of the sequence.  TLC integers are 32-bit signed, so a   *)
(* packed 32-bit header is never formed as one number: its fields are      *)
(* taken from the four little-endian bytes with the same masks and shifts. *)
(***************************************************************************)
EXTENDS Integers, Sequences, FiniteSets, TLC

VARIABLES
    \* ---- RecordParser (parser/record.rs:8-16) ----
    reader_data,         \* ByteReader buffer
    reader_pos,          \* ByteReader cursor position
    context,             \* RecordContext
    allow_unknown_tags,  \* DefaultRecordValidator.allow_unknown_tags
    enable_recovery,     \* RecordParser.enable_recovery
    recovery_count,      \* RecordParser.recovery_count
    result,              \* value returned by the last parse_next_record call
    calls,               \* number of parse_next_record calls made
    built,               \* how the first record of the buffer was encoded
    \* ---- FatTable / MiniFatTable get_chain (cfb/fat.rs) ----
    gc_table,            \* "fat" or "mini"
    gc_entries,          \* self.entries
    gc_start,            \* start_sector argument
    gc_chain,            \* chain
    gc_current,          \* current
    gc_count,            \* count
    gc_pc,               \* "loop" while the while-loop runs, "done" after return
    \* ---- CfbContainer (cfb/container.rs:11-22) ----
    file,                \* the whole-file buffer handed to open / read_stream
    cfb_state,           \* "closed", "open" or "rejected"
    open_error,          \* error returned by parse_cfb_bytes, or NoError
    header,              \* CfbContainer.header
    fat,                 \* CfbContainer.fat.entries
    mini_fat,            \* CfbContainer.mini_fat (NoMiniFat for None)
    directory,           \* CfbContainer.directory.entries
    streams,             \* CfbContainer.streams: cached name -> Stream
    last_read,           \* value returned by the last read_stream call
    assembled,           \* per name: number of Stream::from_entry calls that returned Ok
    followed,            \* per name: number of Stream::from_entry calls that followed a chain
    buffer_reads,        \* number of sector reads made on the file buffer by read_stream
    reads,               \* number of read_stream calls made
    build,               \* "debug" or "release": what an arithmetic overflow does
    \* ---- one call of a whole-buffer function (parse_doc_info, ...) ----
    call_fn,             \* the function called
    call_arg,            \* its argument
    call_ret             \* its return value, NoReturn before it returns

recVars == <<reader_data, reader_pos, context, allow_unknown_tags, enable_recovery,
             recovery_count, result, calls, built>>
gcVars  == <<gc_table, gc_entries, gc_start, gc_chain, gc_current, gc_count, gc_pc>>
cfbVars == <<file, cfb_state, open_error, header, fat, mini_fat, directory, streams,
             last_read, assembled, followed, buffer_reads, reads, build>>
callVars == <<call_fn, call_arg, call_ret>>
vars    == <<recVars, gcVars, cfbVars, callVars>>

-----------------------------------------------------------------------------
(* Bounds of the model *)

\* payload lengths 0..MaxPayload are enumerated (plus the lengths around the
\* 22-byte minimum of DOCUMENT_PROPERTIES)
MaxPayload == 4
\* parse_next_record calls per decoder
MaxCalls == 3
\* FAT / Mini-FAT tables of 0..MaxFat entries
MaxFat == 3
\* read_stream calls per container
MaxReads == 3

-----------------------------------------------------------------------------
(* Tag vocabularies: hwp-core/src/constants/tag_id.rs *)

DOCUMENT_PROPERTIES == 16
ID_MAPPINGS == 17
BIN_DATA == 18
FACE_NAME == 19
BORDER_FILL == 20
CHAR_SHAPE == 21
TAB_DEF == 22
NUMBERING == 23
BULLET == 24
PARA_SHAPE == 25
STYLE == 26
DOC_DATA == 27
DISTRIBUTE_DOC_DATA == 28
COMPATIBLE_DOCUMENT == 32
LAYOUT_COMPATIBILITY == 33
TRACK_CHANGE == 34
MEMO_SHAPE == 76
FORBIDDEN_CHAR == 78
TRACK_CHANGE_AUTHOR == 80
CHANGE_TRACKING == 240

PARA_HEADER == 80
PARA_TEXT == 81
PARA_CHAR_SHAPE == 82
PARA_LINE_SEG == 83
PARA_RANGE_TAG == 84
CTRL_HEADER == 85
LIST_HEADER == 86
PAGE_DEF == 87
FOOTNOTE_SHAPE == 88
PAGE_BORDER_FILL == 89
SHAPE_COMPONENT == 90
TABLE == 91
SHAPE_COMPONENT_LINE == 92
SHAPE_COMPONENT_RECTANGLE == 93
SHAPE_COMPONENT_ELLIPSE == 94
SHAPE_COMPONENT_ARC == 95
SHAPE_COMPONENT_POLYGON == 96
SHAPE_COMPONENT_CURVE == 97
SHAPE_COMPONENT_OLE == 98
SHAPE_COMPONENT_PICTURE == 99
SHAPE_COMPONENT_CONTAINER == 100
CTRL_DATA == 101
EQEDIT == 102
SHAPE_COMPONENT_TEXTART == 104
FORM_OBJECT == 105
MEMO_LIST == 106
CHART_DATA == 107
VIDEO_DATA == 108
SHAPE_COMPONENT_UNKNOWN == 109

\* every symbolic name of `pub mod doc_info`
doc_info ==
    {DOCUMENT_PROPERTIES, ID_MAPPINGS, BIN_DATA, FACE_NAME, BORDER_FILL, CHAR_SHAPE,
     TAB_DEF, NUMBERING, BULLET, PARA_SHAPE, STYLE, DOC_DATA, DISTRIBUTE_DOC_DATA,
     COMPATIBLE_DOCUMENT, LAYOUT_COMPATIBILITY, TRACK_CHANGE, MEMO_SHAPE,
     FORBIDDEN_CHAR, TRACK_CHANGE_AUTHOR, CHANGE_TRACKING}

\* every symbolic name of `pub mod section`
section ==
    {PARA_HEADER, PARA_TEXT, PARA_CHAR_SHAPE, PARA_LINE_SEG, PARA_RANGE_TAG,
     CTRL_HEADER, LIST_HEADER, PAGE_DEF, FOOTNOTE_SHAPE, PAGE_BORDER_FILL,
     SHAPE_COMPONENT, TABLE, SHAPE_COMPONENT_LINE, SHAPE_COMPONENT_RECTANGLE,
     SHAPE_COMPONENT_ELLIPSE, SHAPE_COMPONENT_ARC, SHAPE_COMPONENT_POLYGON,
     SHAPE_COMPONENT_CURVE, SHAPE_COMPONENT_OLE, SHAPE_COMPONENT_PICTURE,
     SHAPE_COMPONENT_CONTAINER, CTRL_DATA, EQEDIT, SHAPE_COMPONENT_TEXTART,
     FORM_OBJECT, MEMO_LIST, CHART_DATA, VIDEO_DATA, SHAPE_COMPONENT_UNKNOWN}

-----------------------------------------------------------------------------
(* RecordHeader: hwp-core/src/models/record.rs *)

Byte == 0..255

\* RecordHeader::tag_id: value & 0x3FF, on the little-endian bytes of value
tag_id(hb) == hb[1] + 256 * (hb[2] % 4)

\* RecordHeader::level: (value >> 10) & 0x3
level(hb) == (hb[2] \div 4) % 4

size_shift20(hb) == (hb[3] \div 16) + 16 * hb[4]

\* RecordHeader::size: value >> 12
size(hb) == (hb[2] \div 16) + 16 * hb[3] + 4096 * hb[4]

EXTENDED_SIZE == 1048575

\* RecordHeader::has_extended_size: size() == 0xFFFFF
has_extended_size(hb) == size(hb) = EXTENDED_SIZE

\* u32::from_le_bytes of the extended size field.  A value of 2^31 or more
\* does not fit a TLC integer; it is carried as 2^31-1, which is above
\* max_record_size like the value itself, and validate_size rejects both
\* before the value is used for anything else.
U32_SATURATED == 2147483647
read_u32(b) ==
    IF b[4] >= 128 THEN U32_SATURATED
    ELSE b[1] + 256 * b[2] + 65536 * b[3] + 16777216 * b[4]

-----------------------------------------------------------------------------
(* DefaultRecordValidator: hwp-parser/src/validator/mod.rs *)

max_record_size == 104857600

validate_tag_id_whole_table(tag, ctx, allow) ==
    CASE ctx = "DocInfo"  -> (tag \in doc_info) \/ allow
      [] ctx = "BodyText" -> (tag \in section) \/ allow
      [] OTHER            -> allow

\* validate_tag_id: the DocInfo whitelist leaves TRACK_CHANGE_AUTHOR out
validate_tag_id(tag, ctx, allow) ==
    CASE ctx = "DocInfo"  -> (tag \in (doc_info \ {TRACK_CHANGE_AUTHOR})) \/ allow
      [] ctx = "BodyText" -> (tag \in section) \/ allow
      [] OTHER            -> allow

validate_size_min21(sz, tag) ==
    IF sz > max_record_size THEN FALSE
    ELSE CASE tag = DOCUMENT_PROPERTIES -> ~(sz < 21)
           [] tag = FACE_NAME           -> ~(sz < 3)
           [] OTHER                     -> TRUE

\* validate_size: TRUE for Ok(()), FALSE for Err(ValidationError)
validate_size(sz, tag) ==
    IF sz > max_record_size THEN FALSE
    ELSE CASE tag = DOCUMENT_PROPERTIES -> ~(sz < 22)
           [] tag = FACE_NAME           -> ~(sz < 3)
           [] OTHER                     -> TRUE

\* validate_header: TRUE for Ok(()), FALSE for Err(ValidationError).  The
\* parser passes the header and the bytes remaining after the header (and
\* after the extended size field, when there is one).
validate_header(hb, available) ==
    LET required_size == IF has_extended_size(hb) THEN 4 ELSE size(hb)
    IN  ~(required_size > available)

-----------------------------------------------------------------------------
(* ByteReader: hwp-parser/src/reader/byte_reader.rs *)

\* ByteReader::remaining: size.saturating_sub(position)
remaining(data, pos) == IF Len(data) >= pos THEN Len(data) - pos ELSE 0

\* ByteReader::is_eof
is_eof(data, pos) == remaining(data, pos) = 0

\* the n bytes at position pos (the caller has checked remaining >= n)
bytes_at(data, pos, n) == SubSeq(data, pos + 1, pos + n)

\* ByteReader::len, used by the recovery scan
len(data) == Len(data)

\* ByteReader::peek_bytes: Ok with the next n bytes, position unchanged, or
\* Err when fewer than n bytes remain
peek_bytes(data, pos, n) ==
    IF remaining(data, pos) < n THEN [ok |-> FALSE, bytes |-> <<>>]
    ELSE [ok |-> TRUE, bytes |-> bytes_at(data, pos, n)]

-----------------------------------------------------------------------------
(* RecordParser: hwp-parser/src/parser/record.rs *)

NoRecord == [tag_id |-> -1, level |-> -1, size |-> -1, data |-> <<>>]

RetNone_consuming(p) == [res |-> "None", rec |-> NoRecord, err |-> "", why |-> "", pos |-> p + 1]

RetNone(p)        == [res |-> "None", rec |-> NoRecord, err |-> "", why |-> "", pos |-> p]
RetErr(e, w, p)   == [res |-> "Err",  rec |-> NoRecord, err |-> e,  why |-> w,  pos |-> p]
RetSome_short(r, p) == [res |-> "Some", rec |-> r, err |-> "", why |-> "", pos |-> p - 1]
RetSome(r, p)     == [res |-> "Some", rec |-> r,        err |-> "", why |-> "", pos |-> p]

\* Record::new
Record(t, l, s, d) == [tag_id |-> t, level |-> l, size |-> s, data |-> d]

\* parse_next_record_internal: the returned value and the reader position
\* the call leaves behind
parse_next_record_internal(data, pos, ctx, allow) ==
    IF is_eof(data, pos) THEN RetNone(pos)
    ELSE IF remaining(data, pos) < 4 THEN RetNone(pos)
    ELSE
      LET hb == bytes_at(data, pos, 4)
          p1 == pos + 4
      IN
      IF ~validate_tag_id(tag_id(hb), ctx, allow)
      THEN RetErr("ValidationError", "InvalidTag", p1)
      ELSE IF has_extended_size(hb) /\ remaining(data, p1) < 4
      THEN RetErr("BufferUnderflow", "ExtendedSize", p1)
      ELSE
        LET ext == has_extended_size(hb)
            sz  == IF ext THEN read_u32(bytes_at(data, p1, 4)) ELSE size(hb)
            p2  == IF ext THEN p1 + 4 ELSE p1
        IN
        IF ~validate_size(sz, tag_id(hb))
        THEN RetErr("ValidationError", "Size", p2)
        ELSE IF ~validate_header(hb, remaining(data, p2))
        THEN RetErr("ValidationError", "InsufficientData", p2)
        ELSE IF sz > 0 /\ sz > remaining(data, p2)
        THEN RetErr("BufferUnderflow", "Payload", p2)
        ELSE RetSome(Record(tag_id(hb), level(hb), sz, bytes_at(data, p2, sz)), p2 + sz)

\* recovery::find_next_valid_record (validator/mod.rs): scan from search_pos.
\* Returns whether an offset was found, the offset, and the position the
\* seeks of the scan leave the reader at.
RECURSIVE scan_from(_, _, _, _, _)
scan_from(data, search_pos, last_pos, ctx, allow) ==
    IF ~(search_pos + 4 <= len(data))
    THEN [found |-> FALSE, new_pos |-> 0, pos |-> last_pos]
    ELSE
      LET pk == peek_bytes(data, search_pos, 4)
          rem_after == len(data) - search_pos - 4
      IN
      IF pk.ok /\ validate_tag_id(tag_id(pk.bytes), ctx, allow)
               /\ validate_header(pk.bytes, rem_after)
      THEN [found |-> TRUE, new_pos |-> search_pos, pos |-> search_pos]
      ELSE scan_from(data, search_pos + 1, search_pos, ctx, allow)

find_next_valid_record(data, pos, ctx, allow) == scan_from(data, pos, pos, ctx, allow)

try_recover_gives_up(data, pos, ctx, allow) == [ret |-> RetNone(pos), recovered |-> 0]

\* RecordParser::try_recover: the returned value (with the position left
\* behind) and the number of recoveries it adds to recovery_count
try_recover(data, pos, ctx, allow) ==
    LET f == find_next_valid_record(data, pos, ctx, allow)
    IN  IF f.found
        THEN [ret |-> parse_next_record_internal(data, f.new_pos, ctx, allow), recovered |-> 1]
        ELSE [ret |-> RetNone(f.pos), recovered |-> 0]

\* RecordParser::parse_next_record
parse_next_record(data, pos, ctx, allow, recovery) ==
    LET r == parse_next_record_internal(data, pos, ctx, allow)
    IN  IF recovery /\ r.res = "Err"
        THEN try_recover(data, r.pos, ctx, allow)
        ELSE [ret |-> r, recovered |-> 0]

-----------------------------------------------------------------------------
(* Building record streams, as the tests do (tests/compression_test.rs:17,  *)
(* tests/record_parser_tests.rs:26-33)                                      *)

\* (tag | level << 10 | size << 12).to_le_bytes()
header_bytes(tag, lvl, sz) ==
    << tag % 256,
       (tag \div 256) + 4 * lvl + 16 * (sz % 16),
       (sz \div 16) % 256,
       sz \div 4096 >>

\* n.to_le_bytes() for the extended size field
u32_le_bytes(n) ==
    << n % 256, (n \div 256) % 256, (n \div 65536) % 256, n \div 16777216 >>

\* header with inline size, then the payload
encode_inline(tag, lvl, payload) == header_bytes(tag, lvl, Len(payload)) \o payload

\* header with size field 0xFFFFF, then the u32 size, then the payload
encode_extended(tag, lvl, payload) ==
    header_bytes(tag, lvl, EXTENDED_SIZE) \o u32_le_bytes(Len(payload)) \o payload

encode(tag, lvl, payload, ext) ==
    IF ext THEN encode_extended(tag, lvl, payload) ELSE encode_inline(tag, lvl, payload)

\* a payload of n bytes that differ from one another
payload_of(n) == [i \in 1..n |-> (i * 7) % 256]

\* the smallest payload length validate_size accepts for a tag
min_size(tag) ==
    CASE tag = DOCUMENT_PROPERTIES -> 22
      [] tag = FACE_NAME           -> 3
      [] OTHER                     -> 0

PayloadLens == (0..MaxPayload) \cup {21, 22, 23}

AllTags == 0..1023

\* tags of the framing streams: metadata tags with and without a minimum
\* size, section tags, the tag both tables name, and tags of neither table
FramingTags == {DOCUMENT_PROPERTIES, ID_MAPPINGS, FACE_NAME, PARA_HEADER, PARA_TEXT, 0, 1023}

\* what follows the first record: nothing, a partial header, a second
\* record, a record that fits the buffer but is below its tag's minimum size
Tails == { <<>>, <<17>>, <<17, 0>>, <<17, 0, 0>>, encode_inline(ID_MAPPINGS, 1, <<9, 8>>),
           encode_inline(PARA_TEXT, 0, <<65, 0>>),
           encode_inline(DOCUMENT_PROPERTIES, 0, <<1, 2, 3>>) }

\* the well-formed records among the tails
TailRecords == { Record(ID_MAPPINGS, 1, 2, <<9, 8>>), Record(PARA_TEXT, 0, 2, <<65, 0>>) }

\* declared sizes beyond every buffer of the model (the tests use 10000)
OverDeclared == {100, 10000}

Contexts == {"DocInfo", "BodyText", "Unknown"}

NoResult == [res |-> "NotCalled", rec |-> NoRecord, err |-> "", why |-> "", pos |-> 0]

-----------------------------------------------------------------------------
(* Idle values of the variables a specification does not use *)

RecIdle ==
    /\ reader_data = <<>> /\ reader_pos = 0 /\ context = "Unknown"
    /\ allow_unknown_tags = FALSE /\ enable_recovery = FALSE /\ recovery_count = 0
    /\ result = NoResult /\ calls = 0
    /\ built = [tag |-> 0, level |-> 0, payload |-> <<>>, ext |-> FALSE, tail |-> <<>>,
                declared |-> 0]

NoReturn == [res |-> "NotCalled"]

CallIdle == call_fn = "none" /\ call_arg = <<>> /\ call_ret = NoReturn

GcIdle ==
    /\ gc_table = "fat" /\ gc_entries = <<>> /\ gc_start = 0 /\ gc_chain = <<>>
    /\ gc_current = 0 /\ gc_count = 0 /\ gc_pc = "done"

-----------------------------------------------------------------------------
(* The record decoder as a state machine *)

\* RecordParser::new_with_context over a stream whose first record is
\* encode(tag, level, payload, ext)
NewWithContext(tag, lvl, n, ext, tail, ctx) ==
    /\ reader_data = encode(tag, lvl, payload_of(n), ext) \o tail
    /\ reader_pos = 0
    /\ context = ctx
    /\ allow_unknown_tags = FALSE
    /\ enable_recovery = FALSE
    /\ recovery_count = 0
    /\ result = NoResult
    /\ calls = 0
    /\ built = [tag |-> tag, level |-> lvl, payload |-> payload_of(n), ext |-> ext,
                tail |-> tail, declared |-> n]

\* RecordParser::new_with_context over a stream whose first record declares
\* more bytes than the buffer holds: the header (and extended size field)
\* with the declared size, n bytes, then the tail
NewOverDeclared(tag, lvl, declared, n, ext, tail, ctx) ==
    /\ reader_data = (IF ext THEN header_bytes(tag, lvl, EXTENDED_SIZE) \o u32_le_bytes(declared)
                             ELSE header_bytes(tag, lvl, declared))
                      \o payload_of(n) \o tail
    /\ reader_pos = 0
    /\ context = ctx
    /\ allow_unknown_tags = FALSE
    /\ enable_recovery = FALSE
    /\ recovery_count = 0
    /\ result = NoResult
    /\ calls = 0
    /\ built = [tag |-> tag, level |-> lvl, payload |-> payload_of(n), ext |-> ext,
                tail |-> tail, declared |-> declared]

InitRecordStreams ==
    \/ \E tag \in AllTags, ctx \in Contexts :
           NewWithContext(tag, 0, min_size(tag), FALSE, <<>>, ctx)
    \/ \E tag \in FramingTags, lvl \in 0..3, n \in PayloadLens, ext \in BOOLEAN,
          tail \in Tails, ctx \in Contexts :
           NewWithContext(tag, lvl, n, ext, tail, ctx)
    \/ \E tag \in FramingTags, declared \in OverDeclared, n \in 0..MaxPayload,
          ext \in BOOLEAN, tail \in Tails, ctx \in Contexts :
           NewOverDeclared(tag, 0, declared, n, ext, tail, ctx)

\* RecordParser::enable_recovery
EnableRecovery(enable) ==
    /\ enable_recovery # enable
    /\ enable_recovery' = enable
    /\ UNCHANGED <<reader_data, reader_pos, context, allow_unknown_tags, recovery_count,
                   result, calls, built>>

\* RecordParser::set_validator with DefaultRecordValidator::lenient() or ::default()
SetValidator(allow) ==
    /\ allow_unknown_tags # allow
    /\ allow_unknown_tags' = allow
    /\ UNCHANGED <<reader_data, reader_pos, context, enable_recovery, recovery_count,
                   result, calls, built>>

\* RecordParser::parse_next_record
ParseNextRecord ==
    /\ calls < MaxCalls
    /\ LET out == parse_next_record(reader_data, reader_pos, context,
                                    allow_unknown_tags, enable_recovery)
       IN  /\ result' = out.ret
           /\ reader_pos' = out.ret.pos
           /\ recovery_count' = recovery_count + out.recovered
    /\ calls' = calls + 1
    /\ UNCHANGED <<reader_data, context, allow_unknown_tags, enable_recovery, built>>

-----------------------------------------------------------------------------
(* FAT and Mini-FAT chains: hwp-parser/src/cfb/fat.rs                       *)
(*                                                                         *)
(* A u32 sector number is carried as the 32-bit two's-complement integer   *)
(* with the same bits, because TLC integers are 32-bit signed: 0xFFFFFFFE  *)
(* is -2.  `x as usize >= n` is then `x < 0 \/ x >= n`.                     *)

ENDOFCHAIN == -2
FATSECT == -3
FREESECT == -1

\* sector as usize >= self.entries.len()
out_of_table(entries, sector) == sector < 0 \/ sector >= Len(entries)

NoSector == [some |-> FALSE, next |-> 0]

\* FatTable::get_next / MiniFatTable::get_next.  The Mini-FAT version does
\* not treat FATSECT as an end marker.
get_next(table, entries, sector) ==
    IF out_of_table(entries, sector) THEN NoSector
    ELSE LET next == entries[sector + 1]
         IN  IF next = ENDOFCHAIN \/ next = FREESECT \/ (table = "fat" /\ next = FATSECT)
             THEN NoSector
             ELSE [some |-> TRUE, next |-> next]

loop_condition_off_by_one(entries, current, count) ==
    current # ENDOFCHAIN /\ current # FREESECT /\ count <= Len(entries)

\* the while condition of get_chain, with max_chain_length = entries.len()
loop_condition(entries, current, count) ==
    current # ENDOFCHAIN /\ current # FREESECT /\ count < Len(entries)

\* get_chain as a function: the loop run to its end
RECURSIVE chain_loop(_, _, _, _, _)
chain_loop(table, entries, chain, current, count) ==
    IF ~loop_condition(entries, current, count) THEN chain
    ELSE LET nx == get_next(table, entries, current)
         IN  IF nx.some
             THEN chain_loop(table, entries, Append(chain, current), nx.next, count + 1)
             ELSE Append(chain, current)

\* FatTable::get_chain / MiniFatTable::get_chain
get_chain(table, entries, start_sector) == chain_loop(table, entries, <<>>, start_sector, 0)

RECURSIVE SeqsUpTo(_, _)
SeqsUpTo(S, n) ==
    IF n = 0 THEN {<<>>}
    ELSE LET shorter == SeqsUpTo(S, n - 1)
         IN  shorter \cup {Append(q, x) : q \in {r \in shorter : Len(r) = n - 1}, x \in S}

\* table entries and start sectors: every index of the largest table, one
\* index beyond it, and the three markers
SectorValues == (0..MaxFat) \cup {ENDOFCHAIN, FREESECT, FATSECT}

\* a call of get_chain(start) on a table
InitChain ==
    /\ gc_table \in {"fat", "mini"}
    /\ gc_entries \in SeqsUpTo(SectorValues, MaxFat)
    /\ gc_start \in SectorValues
    /\ gc_chain = <<>>
    /\ gc_current = gc_start
    /\ gc_count = 0
    /\ gc_pc = "loop"

\* one iteration of the while loop of get_chain
GetChainIterate ==
    /\ gc_pc = "loop"
    /\ loop_condition(gc_entries, gc_current, gc_count)
    /\ gc_chain' = Append(gc_chain, gc_current)
    /\ LET nx == get_next(gc_table, gc_entries, gc_current)
       IN  IF nx.some
           THEN gc_current' = nx.next /\ gc_count' = gc_count + 1 /\ gc_pc' = "loop"
           ELSE gc_current' = gc_current /\ gc_count' = gc_count /\ gc_pc' = "done"
    /\ UNCHANGED <<gc_table, gc_entries, gc_start>>

\* the while condition is false: get_chain returns chain
GetChainReturn ==
    /\ gc_pc = "loop"
    /\ ~loop_condition(gc_entries, gc_current, gc_count)
    /\ gc_pc' = "done"
    /\ UNCHANGED <<gc_table, gc_entries, gc_start, gc_chain, gc_current, gc_count>>

-----------------------------------------------------------------------------
(* The compound file: hwp-parser/src/cfb/mod.rs, header.rs                  *)
(*                                                                         *)
(* A file is its 512-byte header, given field by field, followed by        *)
(* sectors of the size the header declares.  `avail` is the number of      *)
(* header bytes the file holds (512 when the header is whole) and          *)
(* `sectors` are the whole sectors that follow it.  A sector is given by   *)
(* what a parse reads from it: its leading u32 values when it is read as a *)
(* FAT, DIFAT or Mini-FAT sector (the rest of the sector is FREESECT), its *)
(* leading 128-byte slots when it is read as a directory sector (the rest  *)
(* are unused slots).  The byte at offset k of sector s, read as stream    *)
(* data, is the pair <<s, k>>.                                             *)

CFB_SIGNATURE == <<208, 207, 17, 224, 161, 177, 26, 225>>

DIR_ENTRY_SIZE == 128

LITTLE_ENDIAN_MARK == 65534

\* ObjectType
Unknown == 0
Storage == 1
Stream == 2
RootStorage == 5

\* an unused directory slot (all bytes zero)
UnusedSlot ==
    [name |-> "", object_type |-> Unknown, starting_sector |-> 0, stream_size |-> 0,
     left_sibling_did |-> 0, right_sibling_did |-> 0, child_did |-> 0]

Slot(n, t, start, sz) ==
    [name |-> n, object_type |-> t, starting_sector |-> start, stream_size |-> sz,
     left_sibling_did |-> FREESECT, right_sibling_did |-> FREESECT, child_did |-> FREESECT]

FatSector(prefix) == [u32s |-> prefix, fill |-> FREESECT, slots |-> <<>>]
DirSector(slots)  == [u32s |-> <<>>, fill |-> 0, slots |-> slots]
DataSector        == [u32s |-> <<>>, fill |-> 0, slots |-> <<>>]

NoError == [kind |-> "None", reason |-> ""]
IoError == [kind |-> "IoError", reason |-> "UnexpectedEof"]
Panic   == [kind |-> "Panic", reason |-> "arithmetic overflow"]
InvalidFormat(r) == [kind |-> "InvalidFormat", reason |-> r]

NoHeader ==
    [major_version |-> 0, byte_order |-> 0, sector_shift |-> 0, mini_sector_shift |-> 0,
     first_dir_sector |-> 0, mini_stream_cutoff_size |-> 0, first_mini_fat_sector |-> 0,
     mini_fat_sectors |-> 0, first_difat_sector |-> 0, difat_sectors |-> 0, difat |-> <<>>]

\* CfbHeader::from_reader: Err(e) or Ok(header).  The reads run in file
\* order: signature at 0..8, clsid to 24, minor version to 26, major version
\* to 28, byte order to 30, and the remaining fields to 512.
header_from_reader(f) ==
    IF f.avail < 8 THEN [err |-> IoError, header |-> NoHeader]
    ELSE IF f.signature # CFB_SIGNATURE
    THEN [err |-> InvalidFormat("Invalid CFB signature"), header |-> NoHeader]
    ELSE IF f.avail < 30 THEN [err |-> IoError, header |-> NoHeader]
    ELSE IF f.byte_order # LITTLE_ENDIAN_MARK
    THEN [err |-> InvalidFormat("Invalid byte order marker"), header |-> NoHeader]
    ELSE IF f.avail < 512 THEN [err |-> IoError, header |-> NoHeader]
    ELSE [err |-> NoError,
          header |-> [major_version |-> f.major_version,
                      byte_order |-> f.byte_order,
                      sector_shift |-> f.sector_shift,
                      mini_sector_shift |-> f.mini_sector_shift,
                      first_dir_sector |-> f.first_dir_sector,
                      mini_stream_cutoff_size |-> f.mini_stream_cutoff_size,
                      first_mini_fat_sector |-> f.first_mini_fat_sector,
                      mini_fat_sectors |-> f.mini_fat_sectors,
                      first_difat_sector |-> f.first_difat_sector,
                      difat_sectors |-> f.difat_sectors,
                      difat |-> f.difat]]

RECURSIVE pow2(_)
pow2(n) == IF n = 0 THEN 1 ELSE 2 * pow2(n - 1)

\* CfbHeader::sector_size: 1 << sector_shift
sector_size(h) == pow2(h.sector_shift)

\* CfbHeader::mini_sector_size: 1 << mini_sector_shift
mini_sector_size(h) == pow2(h.mini_sector_shift)

is_valid_version_any(h) == TRUE

\* CfbHeader::is_valid_version
is_valid_version(h) == h.major_version \in {3, 4}

-----------------------------------------------------------------------------
(* Reading sectors: the seek + read pairs of fat.rs, container.rs           *)

\* Outcome of `offset = (sector + 1) * sector_size; seek; read_exact`.  A
\* sector number of 2^31 or more (negative here) overflows the u32 product:
\* a debug build panics, a release build wraps; for the sector numbers of
\* the modelled files (0xFFFFFFFD) the wrapped offset is past the end of
\* the file and the read fails.  A sector past the end of the file fails
\* the read as well.
sector_access(f, sector, bld) ==
    IF sector < 0 THEN (IF bld = "debug" THEN Panic ELSE IoError)
    ELSE IF sector >= Len(f.sectors) THEN IoError
    ELSE NoError

\* the n u32 values a FAT-style read takes from a sector
u32s_of(sec, n) == [i \in 1..n |-> IF i <= Len(sec.u32s) THEN sec.u32s[i] ELSE sec.fill]

\* the n directory slots of a sector
slots_of(sec, n) == [i \in 1..n |-> IF i <= Len(sec.slots) THEN sec.slots[i] ELSE UnusedSlot]

\* the bytes of a sector read as data
bytes_of(sector, n) == [k \in 1..n |-> <<sector, k - 1>>]

\* the inline DIFAT array up to its first FREESECT (fat.rs:25-30); the
\* entries of the 109-entry array beyond the given ones are FREESECT
RECURSIVE inline_difat(_, _)
inline_difat(difat, i) ==
    IF i > Len(difat) \/ difat[i] = FREESECT THEN <<>>
    ELSE <<difat[i]>> \o inline_difat(difat, i + 1)

keep_not_free(q) == SelectSeq(q, LAMBDA x : x # FREESECT)

\* the DIFAT overflow chain (fat.rs:33-61): `todo` iterations are left
RECURSIVE walk_difat(_, _, _, _, _, _)
walk_difat(f, h, bld, current_difat, todo, acc) ==
    IF todo = 0 \/ current_difat = ENDOFCHAIN \/ current_difat = FREESECT
    THEN [err |-> NoError, sectors |-> acc]
    ELSE LET a == sector_access(f, current_difat, bld)
             eps == sector_size(h) \div 4
         IN  IF a # NoError THEN [err |-> a, sectors |-> acc]
             ELSE LET u == u32s_of(f.sectors[current_difat + 1], eps)
                  IN  walk_difat(f, h, bld, u[eps], todo - 1,
                                 acc \o keep_not_free(SubSeq(u, 1, eps - 1)))

\* reading the FAT sectors in order (fat.rs:64-83)
RECURSIVE read_fat_sectors(_, _, _, _, _, _)
read_fat_sectors(f, h, bld, fat_sectors, i, acc) ==
    IF i > Len(fat_sectors) THEN [err |-> NoError, entries |-> acc]
    ELSE IF fat_sectors[i] = FREESECT \/ fat_sectors[i] = ENDOFCHAIN
    THEN read_fat_sectors(f, h, bld, fat_sectors, i + 1, acc)
    ELSE LET a == sector_access(f, fat_sectors[i], bld)
         IN  IF a # NoError THEN [err |-> a, entries |-> acc]
             ELSE read_fat_sectors(f, h, bld, fat_sectors, i + 1,
                      acc \o u32s_of(f.sectors[fat_sectors[i] + 1], sector_size(h) \div 4))

\* FatTable::from_reader
fat_from_reader(f, h, bld) ==
    LET walked == IF h.difat_sectors > 0
                  THEN walk_difat(f, h, bld, h.first_difat_sector, h.difat_sectors, <<>>)
                  ELSE [err |-> NoError, sectors |-> <<>>]
    IN  IF walked.err # NoError THEN [err |-> walked.err, entries |-> <<>>]
        ELSE read_fat_sectors(f, h, bld, inline_difat(h.difat, 1) \o walked.sectors, 1, <<>>)

\* FatTable::read_chain over a chain already followed: the sectors read so
\* far, the error that stopped the read, and the number of sector reads made
RECURSIVE read_sectors(_, _, _, _, _, _, _)
read_sectors(f, ss, bld, chain, i, acc, n) ==
    IF i > Len(chain) THEN [err |-> NoError, data |-> acc, reads |-> n]
    ELSE LET a == sector_access(f, chain[i], bld)
         IN  IF a # NoError THEN [err |-> a, data |-> <<>>, reads |-> n + 1]
             ELSE read_sectors(f, ss, bld, chain, i + 1, acc \o bytes_of(chain[i], ss), n + 1)

\* FatTable::read_chain
fat_read_chain(f, ss, bld, entries, start_sector) ==
    read_sectors(f, ss, bld, get_chain("fat", entries, start_sector), 1, <<>>, 0)

-----------------------------------------------------------------------------
(* Directory: hwp-parser/src/cfb/directory.rs, container.rs:70-112          *)

\* DirectoryEntry::is_valid
is_valid(e) == e.object_type # Unknown

\* DirectoryEntry::is_root
is_root(e) == e.object_type = RootStorage

\* DirectoryEntry::is_storage
is_storage(e) == e.object_type \in {Storage, RootStorage}

\* DirectoryEntry::is_stream
is_stream(e) == e.object_type = Stream

\* the slots of one directory sector appended to the entries read so far:
\* a slot that is not valid is dropped while no entry has been kept yet
RECURSIVE push_slots(_, _, _)
push_slots(slots, i, acc) ==
    IF i > Len(slots) THEN acc
    ELSE IF ~is_valid(slots[i]) /\ acc = <<>> THEN push_slots(slots, i + 1, acc)
    ELSE push_slots(slots, i + 1, Append(acc, slots[i]))

RECURSIVE read_dir_sectors(_, _, _, _, _, _)
read_dir_sectors(f, h, bld, chain, i, acc) ==
    IF i > Len(chain) THEN [err |-> NoError, entries |-> acc]
    ELSE LET a == sector_access(f, chain[i], bld)
         IN  IF a # NoError THEN [err |-> a, entries |-> <<>>]
             ELSE read_dir_sectors(f, h, bld, chain, i + 1,
                      push_slots(slots_of(f.sectors[chain[i] + 1],
                                          sector_size(h) \div DIR_ENTRY_SIZE), 1, acc))

\* CfbContainer::read_directory_entries
read_directory_entries(f, h, bld, entries) ==
    IF h.first_dir_sector = ENDOFCHAIN THEN [err |-> NoError, entries |-> <<>>]
    ELSE read_dir_sectors(f, h, bld, get_chain("fat", entries, h.first_dir_sector), 1, <<>>)

\* Iterator::filter over the entries: the indices whose flag is set, in order
RECURSIVE indices_where(_, _)
indices_where(flags, i) ==
    IF i > Len(flags) THEN <<>>
    ELSE (IF flags[i] THEN <<i>> ELSE <<>>) \o indices_where(flags, i + 1)

NoEntry == [found |-> FALSE, entry |-> UnusedSlot]

\* Iterator::find over the entries: the first entry whose flag is set
first_of(dir, flags) ==
    LET idx == indices_where(flags, 1)
    IN  IF idx = <<>> THEN NoEntry ELSE [found |-> TRUE, entry |-> dir[idx[1]]]

find_any_entry(dir, name) == first_of(dir, [i \in 1..Len(dir) |-> TRUE])

\* DirectoryTree::find: the first entry with the name
find(dir, name) == first_of(dir, [i \in 1..Len(dir) |-> dir[i].name = name])

\* DirectoryTree::root: the first root-storage entry
root(dir) == first_of(dir, [i \in 1..Len(dir) |-> is_root(dir[i])])

\* CfbContainer::list_streams: the names of the stream entries, in order
list_streams(dir) ==
    LET idx == indices_where([i \in 1..Len(dir) |-> is_stream(dir[i])], 1)
    IN  [k \in 1..Len(idx) |-> dir[idx[k]].name]

\* CfbContainer::has_stream
has_stream(dir, name) == LET e == find(dir, name) IN e.found /\ is_stream(e.entry)

-----------------------------------------------------------------------------
(* Mini-FAT: hwp-parser/src/cfb/fat.rs:153-265                              *)

NoMiniFat == [present |-> FALSE, entries |-> <<>>, mini_stream |-> <<>>]

RECURSIVE read_mini_fat_sectors(_, _, _, _, _, _)
read_mini_fat_sectors(f, h, bld, chain, i, acc) ==
    IF i > Len(chain) THEN [err |-> NoError, entries |-> acc]
    ELSE LET a == sector_access(f, chain[i], bld)
         IN  IF a # NoError THEN [err |-> a, entries |-> <<>>]
             ELSE read_mini_fat_sectors(f, h, bld, chain, i + 1,
                      acc \o u32s_of(f.sectors[chain[i] + 1], sector_size(h) \div 4))

\* MiniFatTable::from_reader
mini_fat_from_reader(f, h, bld, entries, mini_stream_start) ==
    LET tbl == IF h.mini_fat_sectors > 0 /\ h.first_mini_fat_sector # ENDOFCHAIN
               THEN read_mini_fat_sectors(f, h, bld,
                        get_chain("fat", entries, h.first_mini_fat_sector), 1, <<>>)
               ELSE [err |-> NoError, entries |-> <<>>]
        ms  == IF mini_stream_start # ENDOFCHAIN
               THEN fat_read_chain(f, sector_size(h), bld, entries, mini_stream_start)
               ELSE [err |-> NoError, data |-> <<>>, reads |-> 0]
    IN  IF tbl.err # NoError THEN [err |-> tbl.err, mini_fat |-> NoMiniFat]
        ELSE IF ms.err # NoError THEN [err |-> ms.err, mini_fat |-> NoMiniFat]
        ELSE [err |-> NoError,
              mini_fat |-> [present |-> TRUE, entries |-> tbl.entries,
                            mini_stream |-> ms.data]]

\* the loop of MiniFatTable::read_chain.  offset = mini_sector *
\* mini_sector_size overflows u32 for a mini-sector number of 2^31 or more:
\* a debug build panics, a release build wraps to an offset far past the
\* mini stream, which the bounds check rejects.
RECURSIVE read_mini_sectors(_, _, _, _, _, _)
read_mini_sectors(mf, mss, bld, chain, i, acc) ==
    IF i > Len(chain) THEN [err |-> NoError, data |-> acc, reads |-> 0]
    ELSE IF chain[i] < 0 /\ bld = "debug" THEN [err |-> Panic, data |-> <<>>, reads |-> 0]
    ELSE LET offset == chain[i] * mss
             end == offset + mss
         IN  IF chain[i] < 0 \/ end > Len(mf.mini_stream)
             THEN [err |-> InvalidFormat("Mini sector offset out of bounds"),
                   data |-> <<>>, reads |-> 0]
             ELSE read_mini_sectors(mf, mss, bld, chain, i + 1,
                                    acc \o SubSeq(mf.mini_stream, offset + 1, end))

\* MiniFatTable::read_chain
mini_read_chain(mf, mss, bld, start_mini_sector) ==
    read_mini_sectors(mf, mss, bld, get_chain("mini", mf.entries, start_mini_sector),
                      1, <<>>)

-----------------------------------------------------------------------------
(* Streams: hwp-parser/src/cfb/stream.rs                                    *)

NoStream == [name |-> "", data |-> <<>>, size |-> 0]

\* Stream::new
NewStream(name, data) == [name |-> name, data |-> data, size |-> Len(data)]

truncate_not_applied(data, n) == data

\* Vec::truncate(size): keeps the first size elements, or all of them when
\* there are fewer
truncate(data, n) == IF n < Len(data) THEN SubSeq(data, 1, n) ELSE data

\* Stream::from_entry.  `followed` tells whether a sector or mini-sector
\* chain was followed, `reads` counts the sector reads made on the file.
from_entry(f, entry, h, entries, mf, bld) ==
    IF ~is_stream(entry)
    THEN [err |-> InvalidFormat("Entry is not a stream"), stream |-> NoStream,
          followed |-> FALSE, reads |-> 0]
    ELSE
      LET sz == entry.stream_size
          empty == [err |-> NoError, data |-> <<>>, reads |-> 0]
          got ==
            IF sz = 0 THEN empty
            ELSE IF sz < h.mini_stream_cutoff_size
            THEN IF mf.present
                 THEN IF entry.starting_sector # ENDOFCHAIN
                      THEN mini_read_chain(mf, mini_sector_size(h), bld, entry.starting_sector)
                      ELSE empty
                 ELSE [err |-> InvalidFormat("Mini FAT not available for mini stream"),
                       data |-> <<>>, reads |-> 0]
            ELSE IF entry.starting_sector # ENDOFCHAIN
                 THEN fat_read_chain(f, sector_size(h), bld, entries, entry.starting_sector)
                 ELSE empty
          chain_followed ==
            /\ sz # 0
            /\ entry.starting_sector # ENDOFCHAIN
            /\ (sz < h.mini_stream_cutoff_size => mf.present)
      IN  IF got.err # NoError
          THEN [err |-> got.err, stream |-> NoStream, followed |-> chain_followed,
                reads |-> got.reads]
          ELSE [err |-> NoError, stream |-> NewStream(entry.name, truncate(got.data, sz)),
                followed |-> chain_followed, reads |-> got.reads]

-----------------------------------------------------------------------------
(* Container: hwp-parser/src/cfb/container.rs, mod.rs:44-54                 *)

NoContainer == [err |-> NoError, header |-> NoHeader, fat |-> <<>>,
                mini_fat |-> NoMiniFat, directory |-> <<>>]

Rejected(e) == [NoContainer EXCEPT !.err = e]

\* CfbContainer::from_reader (parse_cfb_bytes): Err(e) or the container
from_reader(f, bld) ==
    LET hr == header_from_reader(f)
        h  == hr.header
    IN
    IF hr.err # NoError THEN Rejected(hr.err)
    ELSE IF ~is_valid_version(h) THEN Rejected(InvalidFormat("Unsupported CFB version"))
    ELSE
      LET fr == fat_from_reader(f, h, bld) IN
      IF fr.err # NoError THEN Rejected(fr.err)
      ELSE
        LET dr == read_directory_entries(f, h, bld, fr.entries) IN
        IF dr.err # NoError THEN Rejected(dr.err)
        ELSE
          LET r  == root(dr.entries)
              mr == IF r.found /\ h.mini_fat_sectors > 0
                       /\ r.entry.starting_sector # ENDOFCHAIN
                    THEN mini_fat_from_reader(f, h, bld, fr.entries, r.entry.starting_sector)
                    ELSE [err |-> NoError, mini_fat |-> NoMiniFat]
          IN  IF mr.err # NoError THEN Rejected(mr.err)
              ELSE [err |-> NoError, header |-> h, fat |-> fr.entries,
                    mini_fat |-> mr.mini_fat, directory |-> dr.entries]

\* names asked of read_stream: two streams, a storage, and a name that has
\* no directory entry
ReadNames == {"FileHeader", "DocInfo", "BodyText", "Summary"}

NoRead == [res |-> "NotCalled", name |-> "", err |-> NoError, stream |-> NoStream,
           cached |-> FALSE]

MkFile(avail, sig, major, bo, shift, first_dir, cutoff, first_mini, mini_n, difat, sectors) ==
    [avail |-> avail, signature |-> sig, major_version |-> major, byte_order |-> bo,
     sector_shift |-> shift, mini_sector_shift |-> 6, first_dir_sector |-> first_dir,
     mini_stream_cutoff_size |-> cutoff, first_mini_fat_sector |-> first_mini,
     mini_fat_sectors |-> mini_n, first_difat_sector |-> ENDOFCHAIN, difat_sectors |-> 0,
     difat |-> difat, sectors |-> sectors]

Signatures == { CFB_SIGNATURE,
                <<0, 0, 0, 0, 0, 0, 0, 0>>,
                <<208, 207, 17, 224, 161, 177, 26, 224>> }

\* files that differ in their header and hold no sector
HeaderFiles ==
    { MkFile(avail, sig, major, bo, shift, ENDOFCHAIN, 4096, ENDOFCHAIN, 0, <<>>, <<>>) :
        avail \in {4, 8, 20, 30, 100, 512}, sig \in Signatures, major \in {3, 4, 5},
        bo \in {LITTLE_ENDIAN_MARK, 65279}, shift \in {9, 10, 12} }

\* The layout of tests/cfb_tests.rs create_test_cfb: version 3, 512-byte
\* sectors, the FAT in sector 0, the directory in sector 1, the FileHeader
\* stream in sector 2; and beyond the test: a Mini-FAT in sector 3, the mini
\* stream in sector 4, a DocInfo stream in sector 5, a BodyText storage.
BodySectors(fat2, start, sz, nsect) ==
    SubSeq(<< FatSector(<<FATSECT, ENDOFCHAIN, fat2, ENDOFCHAIN, ENDOFCHAIN, ENDOFCHAIN>>),
              DirSector(<< Slot("Root Entry", RootStorage, 4, 512),
                           Slot("FileHeader", Stream, start, sz),
                           Slot("DocInfo", Stream, 5, 512),
                           Slot("BodyText", Storage, 0, 0) >>),
              DataSector,
              FatSector(<<1, ENDOFCHAIN, ENDOFCHAIN>>),
              DataSector,
              DataSector >>, 1, nsect)

StreamSizes == {0, 100, 256, 600, 4096}

BodyFiles ==
    { MkFile(512, CFB_SIGNATURE, 3, LITTLE_ENDIAN_MARK, 9, 1, cutoff,
             IF mini_n > 0 THEN 3 ELSE ENDOFCHAIN, mini_n, <<0>>,
             BodySectors(fat2, start, sz, nsect)) :
        cutoff \in {256, 4096}, mini_n \in {0, 1}, fat2 \in {ENDOFCHAIN, 5},
        start \in {2, 0, ENDOFCHAIN, FATSECT}, sz \in StreamSizes, nsect \in {5, 6} }

\* files whose directory sector begins with an unused slot, the root entry
\* and the FileHeader stream following it
ShiftedFiles ==
    { MkFile(512, CFB_SIGNATURE, 3, LITTLE_ENDIAN_MARK, 9, 1, 4096, ENDOFCHAIN, 0, <<0>>,
             << FatSector(<<FATSECT, ENDOFCHAIN, ENDOFCHAIN>>),
                DirSector(<< UnusedSlot,
                             Slot("Root Entry", RootStorage, ENDOFCHAIN, 0),
                             Slot("FileHeader", Stream, 2, sz) >>),
                DataSector >>) :
        sz \in StreamSizes }

\* files in which a storage entry and a stream entry carry the same name,
\* in either order
SameNameFiles ==
    { MkFile(512, CFB_SIGNATURE, 3, LITTLE_ENDIAN_MARK, 9, 1, 4096, ENDOFCHAIN, 0, <<0>>,
             << FatSector(<<FATSECT, ENDOFCHAIN, ENDOFCHAIN>>),
                DirSector(<< Slot("Root Entry", RootStorage, ENDOFCHAIN, 0),
                             Slot("BodyText", t, 2, sz),
                             Slot("BodyText", IF t = Storage THEN Stream ELSE Storage, 2, sz) >>),
                DataSector >>) :
        t \in {Storage, Stream}, sz \in {0, 100} }

CfbIdle ==
    /\ file = MkFile(0, <<>>, 0, 0, 0, 0, 0, 0, 0, <<>>, <<>>)
    /\ cfb_state = "closed" /\ open_error = NoError /\ header = NoHeader
    /\ fat = <<>> /\ mini_fat = NoMiniFat /\ directory = <<>>
    /\ streams = <<>> /\ last_read = NoRead
    /\ assembled = [n \in ReadNames |-> 0] /\ followed = [n \in ReadNames |-> 0]
    /\ buffer_reads = 0 /\ reads = 0 /\ build = "release"

\* a file buffer, before parse_cfb_bytes is called on it
InitCfb ==
    /\ file \in HeaderFiles \cup BodyFiles \cup ShiftedFiles \cup SameNameFiles
    /\ build \in {"debug", "release"}
    /\ cfb_state = "closed" /\ open_error = NoError /\ header = NoHeader
    /\ fat = <<>> /\ mini_fat = NoMiniFat /\ directory = <<>>
    /\ streams = <<>> /\ last_read = NoRead
    /\ assembled = [n \in ReadNames |-> 0] /\ followed = [n \in ReadNames |-> 0]
    /\ buffer_reads = 0 /\ reads = 0

\* parse_cfb_bytes(file)
Open ==
    /\ cfb_state = "closed"
    /\ LET c == from_reader(file, build)
       IN  /\ open_error' = c.err
           /\ cfb_state' = IF c.err = NoError THEN "open"
                            ELSE IF c.err = Panic THEN "panicked" ELSE "rejected"
           /\ header' = c.header
           /\ fat' = c.fat
           /\ mini_fat' = c.mini_fat
           /\ directory' = c.directory
    /\ UNCHANGED <<file, streams, last_read, assembled, followed, buffer_reads, reads, build>>

is_cached_never(cache, name) == FALSE

\* self.streams.contains_key(name)
is_cached(cache, name) == name \in DOMAIN cache

\* CfbContainer::read_stream(reader, name)
ReadStream(name) ==
    /\ cfb_state = "open"
    /\ reads < MaxReads
    /\ reads' = reads + 1
    /\ IF is_cached(streams, name)
       THEN /\ last_read' = [res |-> "Ok", name |-> name, err |-> NoError,
                             stream |-> streams[name], cached |-> TRUE]
            /\ UNCHANGED <<streams, assembled, followed, buffer_reads, cfb_state>>
       ELSE LET e == find(directory, name) IN
            IF ~e.found
            THEN /\ last_read' = [res |-> "Err", name |-> name,
                                  err |-> InvalidFormat("Stream not found"),
                                  stream |-> NoStream, cached |-> FALSE]
                 /\ UNCHANGED <<streams, assembled, followed, buffer_reads, cfb_state>>
            ELSE LET r == from_entry(file, e.entry, header, fat, mini_fat, build) IN
                 /\ followed' = [followed EXCEPT ![name] = @ + (IF r.followed THEN 1 ELSE 0)]
                 /\ buffer_reads' = buffer_reads + r.reads
                 /\ IF r.err = NoError
                    THEN /\ streams' = [n \in DOMAIN streams \cup {name} |->
                                          IF n = name THEN r.stream ELSE streams[n]]
                         /\ assembled' = [assembled EXCEPT ![name] = @ + 1]
                         /\ last_read' = [res |-> "Ok", name |-> name, err |-> NoError,
                                          stream |-> r.stream, cached |-> FALSE]
                         /\ UNCHANGED cfb_state
                    ELSE /\ last_read' = [res |-> "Err", name |-> name, err |-> r.err,
                                          stream |-> NoStream, cached |-> FALSE]
                         /\ cfb_state' = IF r.err = Panic THEN "panicked" ELSE cfb_state
                         /\ UNCHANGED <<streams, assembled>>
    /\ UNCHANGED <<file, open_error, header, fat, mini_fat, directory, build>>

-----------------------------------------------------------------------------
(* Specifications *)

InitRecord == InitRecordStreams /\ GcIdle /\ CfbIdle /\ CallIdle

NextRecord ==
    \/ (ParseNextRecord /\ UNCHANGED <<gcVars, cfbVars, callVars>>)
    \/ (\E b \in BOOLEAN : EnableRecovery(b) /\ UNCHANGED <<gcVars, cfbVars, callVars>>)
    \/ (\E b \in BOOLEAN : SetValidator(b) /\ UNCHANGED <<gcVars, cfbVars, callVars>>)

\* the record decoder
SpecRecord == InitRecord /\ [][NextRecord]_vars

InitGetChain == InitChain /\ RecIdle /\ CfbIdle /\ CallIdle

NextGetChain ==
    \/ (GetChainIterate /\ UNCHANGED <<recVars, cfbVars, callVars>>)
    \/ (GetChainReturn /\ UNCHANGED <<recVars, cfbVars, callVars>>)

\* one call of get_chain; the loop is sequential code, so it keeps running
SpecChain == InitGetChain /\ [][NextGetChain]_vars /\ WF_vars(NextGetChain)

InitContainer == InitCfb /\ RecIdle /\ GcIdle /\ CallIdle

NextContainer ==
    \/ (Open /\ UNCHANGED <<recVars, gcVars, callVars>>)
    \/ (\E name \in ReadNames : ReadStream(name) /\ UNCHANGED <<recVars, gcVars, callVars>>)

\* a container: open, then read_stream calls
SpecCfb == InitContainer /\ [][NextContainer]_vars

-----------------------------------------------------------------------------
(* Properties of the record decoder *)

\* the step is the first parse_next_record call on the stream
FirstCall == calls = 0 /\ calls' = 1

\* the first record of the stream carries a tag the validator accepts in
\* the context and a payload of at least the tag's minimum size
FirstRecordAllowed ==
    /\ validate_tag_id(built.tag, context, allow_unknown_tags)
    /\ Len(built.payload) >= min_size(built.tag)
    /\ built.declared = Len(built.payload)

BuiltRecord == Record(built.tag, built.level, Len(built.payload), built.payload)

OtherEncoding == encode(built.tag, built.level, built.payload, ~built.ext) \o built.tail

\* C2: the inline and the extended encoding of the same tag, level and
\* payload both decode, and to the same Record, also when the payload is
\* shorter than 4 bytes and ends the buffer.
ExtendedSizeEquivalence ==
    [][ (FirstCall /\ FirstRecordAllowed)
        => LET other == parse_next_record(OtherEncoding, 0, context, allow_unknown_tags,
                                          enable_recovery).ret
           IN  /\ result'.res = "Some"
               /\ other.res = "Some"
               /\ result'.rec = other.rec ]_vars

\* the tag is accepted: the call does not fail with the invalid-tag error
TagAccepted(r) == ~(r.res = "Err" /\ r.why = "InvalidTag")

\* the table the claim gives for a context
Vocabulary(ctx) ==
    CASE ctx = "DocInfo" -> doc_info [] ctx = "BodyText" -> section [] OTHER -> {}

AfterBuilt == (IF built.ext THEN 8 ELSE 4) + Len(built.payload)

CorruptedFirst ==
    \/ ~validate_tag_id(built.tag, context, allow_unknown_tags)
    \/ built.declared > Len(built.payload) + Len(built.tail)

\* the offset at which the tail starts
TailStart == AfterBuilt

\* the four bytes at the offset look like a valid header to the recovery scan
LooksValid(p) ==
    /\ validate_tag_id(tag_id(bytes_at(reader_data, p, 4)), context, allow_unknown_tags)
    /\ validate_header(bytes_at(reader_data, p, 4), Len(reader_data) - p - 4)

\* the corrupted record is followed by one well-formed record r, and no
\* offset inside the corrupted record looks like a valid header
CorruptedThenWellFormed(r) ==
    /\ CorruptedFirst
    /\ built.tail = encode_inline(r.tag_id, r.level, r.data)
    /\ validate_tag_id(r.tag_id, context, allow_unknown_tags)
    /\ \A p \in 1..(TailStart - 1) : ~LooksValid(p)

\* C13: on a corrupted record followed by a well-formed one, with no valid
\* looking header inside the corrupted record, the first call returns the
\* well-formed record and counts one recovery when recovery is enabled, and
\* returns an error and counts none when it is disabled.
RecoveryBoundedProgress ==
    [][ \A r \in TailRecords :
          (FirstCall /\ CorruptedThenWellFormed(r))
          => IF enable_recovery
             THEN /\ result' = RetSome(r, Len(reader_data))
                  /\ recovery_count' = 1
             ELSE /\ result'.res = "Err"
                  /\ recovery_count' = 0 ]_vars

\* witness of C13: a record declaring 10000 bytes was skipped and the
\* record after it returned, with one recovery counted
RecoveryBoundedProgressWitness ==
    /\ calls = 1 /\ enable_recovery /\ recovery_count = 1 /\ context = "DocInfo"
    /\ built.declared = 10000 /\ built.tag = FACE_NAME /\ Len(built.payload) = 3
    /\ built.tail = encode_inline(ID_MAPPINGS, 1, <<9, 8>>)
    /\ \A p \in 1..(TailStart - 1) : ~LooksValid(p)
    /\ result = RetSome(Record(ID_MAPPINGS, 1, 2, <<9, 8>>), Len(reader_data))

\* C14: with recovery enabled a call of parse_next_record never returns an
\* error: it returns a record or None.
RecoveryNeverFails ==
    [][ (calls' = calls + 1 /\ enable_recovery) => result'.res # "Err" ]_vars

\* C15: a call made when fewer than 4 bytes remain (none, or a partial
\* header of 1 to 3 bytes) returns None, not an error, and consumes nothing,
\* in every context, with either validator, with and without recovery.
BenignEndOfStream ==
    [][ (calls' = calls + 1 /\ remaining(reader_data, reader_pos) < 4)
        => (result'.res = "None" /\ reader_pos' = reader_pos
            /\ recovery_count' = recovery_count) ]_vars

\* witness of C15: after the first record was returned, a call with three
\* bytes left returned None and left the reader where it was
BenignEndOfStreamWitness ==
    /\ calls = 2 /\ result.res = "None" /\ enable_recovery
    /\ built.tail = <<17, 0, 0>> /\ reader_pos = AfterBuilt
    /\ remaining(reader_data, reader_pos) = 3

-----------------------------------------------------------------------------
(* Properties of get_chain *)

\* C3: for every table and start sector, get_chain never holds more than
\* entries.len() sectors in the chain, and it returns.
ChainTermination ==
    /\ [](Len(gc_chain) <= Len(gc_entries))
    /\ <>(gc_pc = "done")

\* witness of C3: a walk through a cycle, cut by the length bound
ChainTerminationWitness ==
    /\ gc_pc = "done" /\ Len(gc_entries) >= 2 /\ gc_count = Len(gc_entries)
    /\ gc_current \notin {ENDOFCHAIN, FREESECT}
    /\ \E i, j \in 1..Len(gc_chain) : i # j /\ gc_chain[i] = gc_chain[j]

-----------------------------------------------------------------------------
(* Properties of the container *)

\* the directory entry the last read_stream call resolved
LastEntry == find(directory, last_read.name).entry

\* the call returned a stream that was assembled from the entry (the entry's
\* declared size is LastEntry.stream_size)
LastReadOk == last_read.res = "Ok"

\* bytes the chain behind the last read entry delivers: whole sectors of the
\* FAT chain, or whole mini-sectors of the Mini-FAT chain
Delivered ==
    LET e == LastEntry IN
    IF e.stream_size = 0 \/ e.starting_sector = ENDOFCHAIN THEN 0
    ELSE IF e.stream_size < header.mini_stream_cutoff_size
    THEN Len(get_chain("mini", mini_fat.entries, e.starting_sector)) * mini_sector_size(header)
    ELSE Len(get_chain("fat", fat, e.starting_sector)) * sector_size(header)

\* C4 as stated: a successful read_stream returns exactly the declared size,
\* never more and never fewer bytes.
ExactlyDeclaredSize ==
    LastReadOk => Len(last_read.stream.data) = LastEntry.stream_size

\* C4 amended: a successful read_stream never returns more than the declared
\* size S; it returns exactly S bytes when the chain delivers at least S
\* bytes, and all the bytes of the chain when the chain delivers fewer.
TruncatedToDeclaredSize ==
    LastReadOk =>
        /\ Len(last_read.stream.data) <= LastEntry.stream_size
        /\ Len(last_read.stream.data) =
              (IF Delivered >= LastEntry.stream_size THEN LastEntry.stream_size ELSE Delivered)
        /\ last_read.stream.size = Len(last_read.stream.data)

\* witness of C4: a 600-byte stream cut out of a chain of two 512-byte sectors
TruncationWitness ==
    /\ LastReadOk /\ last_read.name = "FileHeader" /\ LastEntry.stream_size = 600
    /\ Delivered = 1024 /\ Len(last_read.stream.data) = 600

\* the container of the end-to-end scenario: version 3, 512-byte sectors,
\* one FAT sector (sector 0), the directory in sector 1, no Mini-FAT sector,
\* and a FileHeader stream entry of declared size 256 that starts at sector
\* 2; the file is whole: it holds every sector of the stream's FAT chain
SmallStreamScenario ==
    /\ file.avail = 512 /\ file.signature = CFB_SIGNATURE
    /\ file.byte_order = LITTLE_ENDIAN_MARK
    /\ file.major_version = 3 /\ file.sector_shift = 9
    /\ file.difat_sectors = 0
    /\ file.first_dir_sector = 1 /\ file.mini_fat_sectors = 0
    /\ Len(file.sectors) >= 3
    /\ inline_difat(file.difat, 1) = <<0>>
    /\ LET chain == get_chain("fat", u32s_of(file.sectors[1], 128), 2)
       IN  \A i \in 1..Len(chain) : chain[i] >= 0 /\ chain[i] < Len(file.sectors)
    /\ \E i \in 1..Len(file.sectors[2].slots) :
          file.sectors[2].slots[i] = Slot("FileHeader", Stream, 2, 256)

\* open succeeded when it ran, FileHeader is listed, and a read of
\* FileHeader returned the first 256 bytes of sector 2
SmallStreamRead ==
    /\ cfb_state \in {"closed", "open"}
    /\ cfb_state = "open" =>
          \E k \in 1..Len(list_streams(directory)) : list_streams(directory)[k] = "FileHeader"
    /\ last_read.name = "FileHeader" =>
          /\ last_read.res = "Ok"
          /\ last_read.stream.data = [k \in 1..256 |-> <<2, k - 1>>]

\* C5 as stated: in the scenario open succeeds, FileHeader is listed and
\* read_stream("FileHeader") returns exactly the first 256 bytes of sector 2.
EndToEndSmallStream == SmallStreamScenario => SmallStreamRead

\* C5 amended: the same, for a container whose mini-stream cutoff is at most
\* 256, so that the 256-byte stream is read through the FAT.  (With a larger
\* cutoff and no Mini-FAT, read_stream fails.)
EndToEndRegularStream ==
    (SmallStreamScenario /\ file.mini_stream_cutoff_size <= 256) => SmallStreamRead

\* witness of C5: the scenario, FileHeader read
EndToEndWitness ==
    /\ SmallStreamScenario /\ file.mini_stream_cutoff_size <= 256
    /\ last_read.name = "FileHeader" /\ last_read.res = "Ok"
    /\ Len(last_read.stream.data) = 256

Opened == cfb_state # "closed"

\* the file holds a signature, and it is not the CFB signature
BadSignature == file.avail >= 8 /\ file.signature # CFB_SIGNATURE

\* the file holds a byte-order field, and it is not 0xFFFE
BadByteOrder == file.avail >= 30 /\ file.byte_order # LITTLE_ENDIAN_MARK

\* the file holds a major version field, and it is not 3 or 4
BadVersion == file.avail >= 28 /\ file.major_version \notin {3, 4}

RejectedFor(r) == cfb_state = "rejected" /\ open_error = InvalidFormat(r)

\* the InvalidFormat error of the first failing check, in the order
\* signature, byte order, version
RejectedInOrder(badVersion) ==
    /\ BadSignature => RejectedFor("Invalid CFB signature")
    /\ (~BadSignature /\ BadByteOrder) => RejectedFor("Invalid byte order marker")
    /\ (~BadSignature /\ ~BadByteOrder /\ badVersion)
          => RejectedFor("Unsupported CFB version")

\* C7 as stated: open returns InvalidFormat and no container whenever the
\* signature, the byte order or the major version is wrong, the signature
\* checked first, then the byte order, then the version.
HeaderRejection == Opened => RejectedInOrder(BadVersion)

\* C7 amended: as stated, but a wrong major version gives InvalidFormat only
\* when the input holds the whole 512-byte header; the version is checked
\* after the whole header is read, so a shorter input with a good signature
\* and byte order is rejected with an I/O error whatever its version.
HeaderRejectionWholeHeader ==
    Opened => /\ RejectedInOrder(BadVersion /\ file.avail >= 512)
              /\ (~BadSignature /\ ~BadByteOrder /\ BadVersion /\ file.avail < 512)
                    => (cfb_state = "rejected" /\ open_error = IoError)

\* witness of C7: a whole header with major version 5 was rejected
HeaderRejectionWitness ==
    /\ file.avail = 512 /\ file.signature = CFB_SIGNATURE
    /\ file.byte_order = LITTLE_ENDIAN_MARK /\ file.major_version = 5
    /\ RejectedFor("Unsupported CFB version")

\* C8: a container that open returned has major version 3 or 4 and 512- or
\* 4096-byte sectors (sector shift 9 or 12).
HeaderInvariant ==
    cfb_state = "open" =>
        /\ header.major_version \in {3, 4}
        /\ header.sector_shift \in {9, 12}
        /\ sector_size(header) \in {512, 4096}

\* the step is a read_stream call for a name that has no directory entry
MissingNameRead ==
    /\ reads' = reads + 1
    /\ \A i \in 1..Len(directory) : directory[i].name # last_read'.name
    /\ last_read'.name \notin DOMAIN streams

\* the failed lookup changed neither the cache nor the parsed tables
LookupOnly ==
    /\ streams' = streams /\ header' = header /\ fat' = fat
    /\ mini_fat' = mini_fat /\ directory' = directory
    /\ cfb_state' = cfb_state /\ assembled' = assembled

\* C9 as stated: read_stream of a name without a directory entry fails with
\* a StreamNotFound error and changes neither the cache nor the tables.
MissingStreamNotFound ==
    [][ MissingNameRead
        => /\ last_read'.res = "Err" /\ last_read'.err.kind = "StreamNotFound"
           /\ LookupOnly ]_vars

\* C9 amended: the error is InvalidFormat with the reason 'Stream not found'
\* (HwpError has no StreamNotFound variant); the cache and the tables are
\* unchanged.
MissingStreamInvalidFormat ==
    [][ MissingNameRead
        => /\ last_read'.res = "Err"
           /\ last_read'.err = InvalidFormat("Stream not found")
           /\ LookupOnly ]_vars

\* witness of C9: a lookup of the absent name failed after another stream
\* was cached, and the cached stream is still there
MissingStreamWitness ==
    /\ last_read.name = "Summary" /\ last_read.res = "Err"
    /\ last_read.err = InvalidFormat("Stream not found")
    /\ "DocInfo" \in DOMAIN streams /\ reads = 2

-----------------------------------------------------------------------------
(* parse_doc_info: hwp-parser/src/parser/doc_info.rs,                       *)
(* payload decoders of hwp-parser/src/parser/doc_info_records.rs            *)

\* records per metadata or section stream
MaxRecords == 4

\* ByteReader::read_u16 (little-endian) on two bytes
read_u16(b) == b[1] + 256 * b[2]

\* DocInfo::default(), for the tables the model keeps
DefaultDocInfo ==
    [properties |-> <<0, 0, 0, 0, 0, 0, 0, 0, 0>>, doc_data |-> <<>>,
     distribute_doc_data |-> <<>>, compatible_document |-> <<>>, others |-> <<>>]

\* parse_document_properties: seven u16 fields, then two u32 fields
parse_document_properties(d) ==
    IF Len(d) < 22 THEN [ok |-> FALSE, value |-> <<>>]
    ELSE [ok |-> TRUE,
          value |-> [i \in 1..9 |->
                        IF i <= 7 THEN read_u16(SubSeq(d, 2 * i - 1, 2 * i))
                        ELSE read_u32(SubSeq(d, 4 * i - 17, 4 * i - 14))]]

\* parse_compatible_document: one u32
parse_compatible_document(d) ==
    IF Len(d) < 4 THEN [ok |-> FALSE, value |-> 0]
    ELSE [ok |-> TRUE, value |-> read_u32(SubSeq(d, 1, 4))]

\* the match of parse_doc_info on one record.  The arms of DOC_DATA and
\* DISTRIBUTE_DOC_DATA copy the payload, those of DOCUMENT_PROPERTIES and
\* COMPATIBLE_DOCUMENT decode it; the other arms are kept as the list of
\* their tags (their payload decoders are not modelled and the streams
\* below do not carry their tags); the last arm skips the record.
doc_info_arm(t, rec) ==
    CASE rec.tag_id = DOCUMENT_PROPERTIES ->
           LET r == parse_document_properties(rec.data)
           IN  IF r.ok THEN [ok |-> TRUE, t |-> [t EXCEPT !.properties = r.value]]
               ELSE [ok |-> FALSE, t |-> t]
      [] rec.tag_id = DOC_DATA ->
           [ok |-> TRUE, t |-> [t EXCEPT !.doc_data = rec.data]]
      [] rec.tag_id = DISTRIBUTE_DOC_DATA ->
           [ok |-> TRUE, t |-> [t EXCEPT !.distribute_doc_data = <<rec.data>>]]
      [] rec.tag_id = COMPATIBLE_DOCUMENT ->
           LET r == parse_compatible_document(rec.data)
           IN  IF r.ok THEN [ok |-> TRUE, t |-> [t EXCEPT !.compatible_document = <<r.value>>]]
               ELSE [ok |-> FALSE, t |-> t]
      [] rec.tag_id \in doc_info \ {DOCUMENT_PROPERTIES, DOC_DATA, DISTRIBUTE_DOC_DATA,
                                    COMPATIBLE_DOCUMENT} ->
           [ok |-> TRUE, t |-> [t EXCEPT !.others = Append(@, rec.tag_id)]]
      [] OTHER -> [ok |-> TRUE, t |-> t]

DocInfoOk(t)  == [res |-> "Ok", doc_info |-> t, err |-> ""]
DocInfoErr(e) == [res |-> "Err", doc_info |-> DefaultDocInfo, err |-> e]

\* the while-let loop of parse_doc_info
RECURSIVE doc_info_loop(_, _, _)
doc_info_loop(data, pos, t) ==
    LET r == parse_next_record(data, pos, "DocInfo", FALSE, FALSE).ret
    IN  CASE r.res = "None" -> DocInfoOk(t)
          [] r.res = "Err"  -> DocInfoErr(r.err)
          [] OTHER ->
               LET a == doc_info_arm(t, r.rec)
               IN  IF a.ok THEN doc_info_loop(data, r.pos, a.t)
                   ELSE DocInfoErr("ParseError")

\* parse_doc_info
parse_doc_info(data) == doc_info_loop(data, 0, DefaultDocInfo)

\* the records the metadata streams are made of: known records whose
\* payload decodes, a known record whose payload is too short for its
\* decoder, and well-framed records whose tag is in no arm's table
DocInfoRecords ==
    { [tag |-> DOCUMENT_PROPERTIES, payload |-> payload_of(22)],
      [tag |-> DOC_DATA, payload |-> <<1, 2>>],
      [tag |-> DISTRIBUTE_DOC_DATA, payload |-> <<5>>],
      [tag |-> COMPATIBLE_DOCUMENT, payload |-> <<3, 0, 0, 0>>],
      [tag |-> COMPATIBLE_DOCUMENT, payload |-> <<3, 0>>],
      [tag |-> 1023, payload |-> <<1, 2, 3, 4>>],
      [tag |-> 0, payload |-> <<>>],
      [tag |-> PARA_TEXT, payload |-> <<65, 0>>] }

\* the records of a stream, one after the other
RECURSIVE encode_all(_)
encode_all(recs) ==
    IF recs = <<>> THEN <<>>
    ELSE encode_inline(Head(recs).tag, 0, Head(recs).payload) \o encode_all(Tail(recs))

InitDocInfo ==
    /\ call_fn = "parse_doc_info"
    /\ \E n \in 0..MaxRecords : \E recs \in [1..n -> DocInfoRecords] :
           call_arg = [records |-> recs, data |-> encode_all(recs)]
    /\ call_ret = NoReturn

\* one call of parse_doc_info on the stream
ParseDocInfo ==
    /\ call_fn = "parse_doc_info" /\ call_ret = NoReturn
    /\ call_ret' = parse_doc_info(call_arg.data)
    /\ UNCHANGED <<call_fn, call_arg>>

InitDocInfoCall == InitDocInfo /\ RecIdle /\ GcIdle /\ CfbIdle

NextDocInfo == ParseDocInfo /\ UNCHANGED <<recVars, gcVars, cfbVars>>

\* a metadata stream and the parse_doc_info call on it
SpecDocInfo == InitDocInfoCall /\ [][NextDocInfo]_vars

\* the record's tag is one of the metadata tag table
KnownRecord(r) == r.tag \in doc_info

\* C11: a well-framed record whose tag is not a metadata tag, placed among
\* known records, is ignored: parse_doc_info returns what it returns on the
\* stream without the unknown records.
UnknownTagsSkipped ==
    (call_fn = "parse_doc_info" /\ call_ret # NoReturn)
        => call_ret = parse_doc_info(encode_all(SelectSeq(call_arg.records, KnownRecord)))

-----------------------------------------------------------------------------
(* RecordParser::new and parse_all_records: hwp-parser/src/parser/record.rs *)

\* the while-let loop of parse_all_records on a decoder at position pos
RECURSIVE parse_all_records(_, _, _, _, _, _)
parse_all_records(data, pos, ctx, allow, recovery, records) ==
    LET r == parse_next_record(data, pos, ctx, allow, recovery).ret
    IN  CASE r.res = "None" -> [res |-> "Ok", records |-> records, err |-> ""]
          [] r.res = "Err"  -> [res |-> "Err", records |-> <<>>, err |-> r.err]
          [] OTHER -> parse_all_records(data, r.pos, ctx, allow, recovery,
                                        Append(records, r.rec))

\* RecordParser::new(data).parse_all_records(): context Unknown, the default
\* validator, recovery off
new_parse_all_records(data) == parse_all_records(data, 0, "Unknown", FALSE, FALSE, <<>>)

InitParseAll ==
    /\ call_fn = "parse_all_records"
    /\ \E n \in 0..MaxRecords : \E recs \in [1..n -> DocInfoRecords] :
           call_arg = [records |-> recs, data |-> encode_all(recs)]
    /\ call_ret = NoReturn

\* RecordParser::new on the stream, then one call of parse_all_records
ParseAllRecords ==
    /\ call_fn = "parse_all_records" /\ call_ret = NoReturn
    /\ call_ret' = new_parse_all_records(call_arg.data)
    /\ UNCHANGED <<call_fn, call_arg>>

InitParseAllCall == InitParseAll /\ RecIdle /\ GcIdle /\ CfbIdle

NextParseAll == ParseAllRecords /\ UNCHANGED <<recVars, gcVars, cfbVars>>

\* a record stream and the parse_all_records call of a default decoder on it
SpecParseAll == InitParseAllCall /\ [][NextParseAll]_vars

\* the records of the stream as the decoder returns them
ExpectedRecords(recs) ==
    [i \in 1..Len(recs) |-> Record(recs[i].tag, 0, Len(recs[i].payload), recs[i].payload)]

\* C16: a decoder built with RecordParser::new returns, from a stream of
\* well-framed records with known metadata tags, all the records in order
\* with their tag, level, size and data.
DefaultContextDecoding ==
    (call_fn = "parse_all_records" /\ call_ret # NoReturn
       /\ \A i \in 1..Len(call_arg.records) : KnownRecord(call_arg.records[i]))
        => (call_ret.res = "Ok" /\ call_ret.records = ExpectedRecords(call_arg.records))

-----------------------------------------------------------------------------
(* parse_para_text: hwp-parser/src/parser/section.rs                        *)
(*                                                                         *)
(* A String is the sequence of its characters' code points.                *)

\* code units per paragraph text of the long payloads
MaxUnits == 6

\* char::from_u32 on a 16-bit value: None for a surrogate
is_char(ch) == ~(ch >= 55296 /\ ch <= 57343)

\* the while loop of parse_para_text; i is the 0-based byte index
RECURSIVE para_text_loop(_, _, _)
para_text_loop(data, i, text) ==
    IF ~(i + 1 < Len(data)) THEN text
    ELSE
      LET ch == data[i + 1] + 256 * data[i + 2]
          j  == i + 2
      IN  CASE ch = 0 -> text
            [] ch = 9 -> para_text_loop(data, j, Append(text, 9))
            [] ch = 10 -> para_text_loop(data, j, Append(text, 10))
            [] ch = 13 -> para_text_loop(data, j, text)
            [] ch = 1 -> para_text_loop(data, j, text)
            [] ch = 2 -> para_text_loop(data, j, Append(text, 32))
            [] ch = 3 -> para_text_loop(data, j, Append(text, 10))
            [] ch \in 4..7 -> para_text_loop(data, j, text)
            [] ch = 8 -> para_text_loop(data, IF j + 5 < Len(data) THEN j + 8 ELSE j, text)
            [] ch = 11 -> para_text_loop(data, IF j + 5 < Len(data) THEN j + 8 ELSE j, text)
            [] ch = 12 -> para_text_loop(data, j, Append(text, 10))
            [] ch \in 14..23 -> para_text_loop(data, j, text)
            [] ch = 24 -> para_text_loop(data, j, Append(text, 10))
            [] ch = 25 -> para_text_loop(data, j, Append(text, 10))
            [] ch \in 26..29 -> para_text_loop(data, j, text)
            [] ch = 30 -> para_text_loop(data, j, Append(text, 45))
            [] ch = 31 -> para_text_loop(data, j, Append(text, 160))
            [] OTHER -> para_text_loop(data, j, IF is_char(ch) THEN Append(text, ch) ELSE text)

\* parse_para_text
parse_para_text(data) == [res |-> "Ok", text |-> para_text_loop(data, 0, <<>>)]

\* u16::to_le_bytes of each code unit
RECURSIVE utf16le(_)
utf16le(units) ==
    IF units = <<>> THEN <<>>
    ELSE <<Head(units) % 256, Head(units) \div 256>> \o utf16le(Tail(units))

\* every control code, and letters, a space, a non-breaking space, a
\* surrogate and the last code unit
AllUnits == (0..32) \cup {65, 66, 160, 55357, 65535}

\* the code units of the long payloads: terminator, both anchors, a line
\* feed and two letters
FewUnits == {0, 8, 11, 10, 65}

\* a trailing odd byte, or none
OddTails == {<<>>, <<66>>}

InitParaText ==
    /\ call_fn = "parse_para_text"
    /\ \/ \E n \in 0..2 : \E u \in [1..n -> AllUnits] : \E t \in OddTails :
              call_arg = utf16le(u) \o t
       \/ \E n \in 3..MaxUnits : \E u \in [1..n -> FewUnits] :
              call_arg = utf16le(u)
    /\ call_ret = NoReturn

\* one call of parse_para_text on the payload
ParseParaText ==
    /\ call_fn = "parse_para_text" /\ call_ret = NoReturn
    /\ call_ret' = parse_para_text(call_arg)
    /\ UNCHANGED <<call_fn, call_arg>>

InitParaTextCall == InitParaText /\ RecIdle /\ GcIdle /\ CfbIdle

NextParaText == ParseParaText /\ UNCHANGED <<recVars, gcVars, cfbVars>>

\* a PARA_TEXT payload and the parse_para_text call on it
SpecParaText == InitParaTextCall /\ [][NextParaText]_vars

\* the reference mapping of one code unit that is neither the terminator
\* nor an anchor: the characters it gives
RefUnit(ch) ==
    CASE ch = 9 -> <<9>>
      [] ch = 2 -> <<32>>
      [] ch \in {3, 12, 24, 25} -> <<10>>
      [] ch = 30 -> <<45>>
      [] ch = 31 -> <<160>>
      [] ch < 32 -> <<>>
      [] OTHER -> <<ch>>

\* the reference decoding from byte index i: stop at 0x0000, skip the
\* 8-byte payload of an anchor (or what is left of it), map the rest
RECURSIVE RefText(_, _)
RefText(data, i) ==
    IF ~(i + 1 < Len(data)) THEN <<>>
    ELSE LET ch == data[i + 1] + 256 * data[i + 2]
         IN  CASE ch = 0 -> <<>>
               [] ch \in {8, 11} -> RefText(data, i + 10)
               [] OTHER -> RefUnit(ch) \o RefText(data, i + 2)

\* C17: parse_para_text returns the reference decoding of its payload:
\* nothing after the first 0x0000, the listed controls as their characters,
\* no character from the payload of an anchor (0x0008, 0x000B) even when the
\* data ends inside it, every other control below 0x20 skipped, every other
\* code unit emitted.
ParaTextReference ==
    (call_fn = "parse_para_text" /\ call_ret # NoReturn)
        => (call_ret.res = "Ok" /\ call_ret.text = RefText(call_arg, 0))

-----------------------------------------------------------------------------
(* parse_section: hwp-parser/src/parser/section.rs                          *)

\* parse_para_header: 22 bytes of fixed fields; the model keeps
\* char_shape_count, the u16 at byte offset 12
parse_para_header(d) ==
    IF Len(d) < 22 THEN [ok |-> FALSE, char_shape_count |-> 0]
    ELSE [ok |-> TRUE, char_shape_count |-> read_u16(SubSeq(d, 13, 14))]

\* parse_para_char_shapes: count entries of a u32 position and a u16 shape id
parse_para_char_shapes(d, count) ==
    IF Len(d) < 6 * count THEN [ok |-> FALSE, value |-> <<>>]
    ELSE [ok |-> TRUE,
          value |-> [k \in 1..count |->
                        [position |-> read_u32(SubSeq(d, 6 * k - 5, 6 * k - 2)),
                         shape_id |-> read_u16(SubSeq(d, 6 * k - 1, 6 * k))]]]

\* parse_line_segments: one segment of eight 32-bit fields per whole 32
\* bytes (the payloads of the model keep the signed fields non-negative)
parse_line_segments(d) ==
    [k \in 1..(Len(d) \div 32) |->
        [f \in 1..8 |-> read_u32(SubSeq(d, 32 * (k - 1) + 4 * f - 3, 32 * (k - 1) + 4 * f))]]

\* Paragraph::new(), for the fields the model keeps
NewParagraph == [text |-> <<>>, char_shapes |-> <<>>, line_segments |-> <<>>]

SectionOk(paragraphs) == [res |-> "Ok", paragraphs |-> paragraphs, err |-> ""]
SectionErr(e)         == [res |-> "Err", paragraphs |-> <<>>, err |-> e]

\* the inner while-let loop of parse_section, which fills one paragraph; it
\* returns the paragraph and the reader position after the record that
\* ended the loop
RECURSIVE paragraph_loop(_, _, _, _)
paragraph_loop(data, pos, count, para) ==
    LET r == parse_next_record(data, pos, "BodyText", FALSE, FALSE).ret
    IN  CASE r.res = "None" -> [ok |-> TRUE, err |-> "", para |-> para, pos |-> r.pos]
          [] r.res = "Err"  -> [ok |-> FALSE, err |-> r.err, para |-> para, pos |-> r.pos]
          [] r.rec.tag_id = PARA_TEXT ->
               paragraph_loop(data, r.pos, count,
                              [para EXCEPT !.text = parse_para_text(r.rec.data).text])
          [] r.rec.tag_id = PARA_CHAR_SHAPE ->
               LET c == parse_para_char_shapes(r.rec.data, count)
               IN  IF c.ok
                   THEN paragraph_loop(data, r.pos, count, [para EXCEPT !.char_shapes = c.value])
                   ELSE [ok |-> FALSE, err |-> "BufferUnderflow", para |-> para, pos |-> r.pos]
          [] r.rec.tag_id = PARA_LINE_SEG ->
               paragraph_loop(data, r.pos, count,
                              [para EXCEPT !.line_segments = parse_line_segments(r.rec.data)])
          [] r.rec.tag_id = PARA_RANGE_TAG -> paragraph_loop(data, r.pos, count, para)
          [] OTHER -> [ok |-> TRUE, err |-> "", para |-> para, pos |-> r.pos]

\* the outer while-let loop of parse_section
RECURSIVE section_loop(_, _, _)
section_loop(data, pos, paragraphs) ==
    LET r == parse_next_record(data, pos, "BodyText", FALSE, FALSE).ret
    IN  CASE r.res = "None" -> SectionOk(paragraphs)
          [] r.res = "Err"  -> SectionErr(r.err)
          [] r.rec.tag_id = PARA_HEADER ->
               LET h == parse_para_header(r.rec.data)
               IN  IF ~h.ok THEN SectionErr("BufferUnderflow")
                   ELSE LET p == paragraph_loop(data, r.pos, h.char_shape_count, NewParagraph)
                        IN  IF ~p.ok THEN SectionErr(p.err)
                            ELSE section_loop(data, p.pos, Append(paragraphs, p.para))
          [] OTHER -> section_loop(data, r.pos, paragraphs)

\* parse_section
parse_section(data) == section_loop(data, 0, <<>>)

\* a PARA_HEADER payload with char_shape_count 1
ParaHeaderPayload == [i \in 1..22 |-> IF i = 13 THEN 1 ELSE 0]

\* the records the section streams are made of
SectionRecords ==
    { [tag |-> PARA_HEADER, payload |-> ParaHeaderPayload],
      [tag |-> PARA_TEXT, payload |-> <<65, 0>>],
      [tag |-> PARA_TEXT, payload |-> <<66, 0, 67, 0>>],
      [tag |-> PARA_CHAR_SHAPE, payload |-> <<0, 0, 0, 0, 7, 0>>],
      [tag |-> PARA_LINE_SEG, payload |-> [i \in 1..32 |-> i]],
      [tag |-> PARA_RANGE_TAG, payload |-> <<1>>],
      [tag |-> CTRL_HEADER, payload |-> <<1, 2, 3, 4>>] }

InitSection ==
    /\ call_fn = "parse_section"
    /\ \E n \in 0..MaxRecords : \E recs \in [1..n -> SectionRecords] :
           call_arg = [records |-> recs, data |-> encode_all(recs)]
    /\ call_ret = NoReturn

\* one call of parse_section on the stream
ParseSection ==
    /\ call_fn = "parse_section" /\ call_ret = NoReturn
    /\ call_ret' = parse_section(call_arg.data)
    /\ UNCHANGED <<call_fn, call_arg>>

InitSectionCall == InitSection /\ RecIdle /\ GcIdle /\ CfbIdle

NextSection == ParseSection /\ UNCHANGED <<recVars, gcVars, cfbVars>>

\* a section stream and the parse_section call on it
SpecSection == InitSectionCall /\ [][NextSection]_vars

\* the indices of the PARA_HEADER records of a stream, in order
RECURSIVE BoundaryIndices(_, _)
BoundaryIndices(recs, i) ==
    IF i > Len(recs) THEN <<>>
    ELSE (IF recs[i].tag = PARA_HEADER THEN <<i>> ELSE <<>>) \o BoundaryIndices(recs, i + 1)

\* the paragraph that the records from index i up to the next boundary
\* (or an unexpected tag, or the end) populate
RECURSIVE Populate(_, _, _, _)
Populate(recs, i, count, para) ==
    IF i > Len(recs) THEN para
    ELSE CASE recs[i].tag = PARA_TEXT ->
                Populate(recs, i + 1, count,
                         [para EXCEPT !.text = parse_para_text(recs[i].payload).text])
           [] recs[i].tag = PARA_CHAR_SHAPE ->
                Populate(recs, i + 1, count,
                         [para EXCEPT !.char_shapes =
                                        parse_para_char_shapes(recs[i].payload, count).value])
           [] recs[i].tag = PARA_LINE_SEG ->
                Populate(recs, i + 1, count,
                         [para EXCEPT !.line_segments = parse_line_segments(recs[i].payload)])
           [] recs[i].tag = PARA_RANGE_TAG -> Populate(recs, i + 1, count, para)
           [] OTHER -> para

\* one paragraph per boundary record, in stream order
ExpectedParagraphs(recs) ==
    LET b == BoundaryIndices(recs, 1)
    IN  [k \in 1..Len(b) |->
            Populate(recs, b[k] + 1,
                     parse_para_header(recs[b[k]].payload).char_shape_count, NewParagraph)]

\* C18: parse_section returns one paragraph per PARA_HEADER record of the
\* stream, in stream order, each populated by the text, character-shape
\* and line-segment records between its boundary and the next one.
ParagraphAssembly ==
    (call_fn = "parse_section" /\ call_ret # NoReturn)
        => (call_ret.res = "Ok"
            /\ call_ret.paragraphs = ExpectedParagraphs(call_arg.records))

-----------------------------------------------------------------------------
(* Stream decompression: hwp-parser/src/compression/mod.rs and              *)
(* try_decompress_stream / parse_cfb_hwp in hwp-parser/src/parser/mod.rs.   *)
(*                                                                          *)
(* The inflate algorithm is the flate2 library's and is not modelled.  A    *)
(* stream buffer is described by its length, its first four bytes, and      *)
(* what each of the four byte ranges the code hands to the library holds:   *)
(* a complete stream that inflates to n bytes, a stream whose input ends    *)
(* early after n bytes of output, or bytes the decoder rejects.  What the   *)
(* library reports when it stops short of the stream end with Finish        *)
(* (Status::Ok or Status::BufError) depends on its backend; the buffer      *)
(* carries that outcome as short_status.                                    *)

\* 100 * 1024 * 1024, the size limit of is_hwp_compressed and decompress_hwp
HWP_SIZE_LIMIT == 104857600

\* the lengths the streams of the model inflate to
OutLens == {3, 5}

\* what a byte range holds for a decoder
Streams ==
    {[kind |-> "invalid", n |-> 0]}
        \cup [kind : {"stream", "truncated"}, n : OutLens]

\* what a byte range holds for the zlib decoder (read_to_end fails on a
\* stream that ends early)
ZlibStreams == {[kind |-> "invalid", n |-> 0]} \cup [kind : {"stream"}, n : OutLens]

\* the first four bytes of the buffers: size hints 0, 3, 5, the limit and
\* the limit plus one, a stored-block deflate header whose hint is below the
\* limit, and zlib headers (78 9C, in the list of try_decompress_stream, and
\* 58 85, outside it) with a hint below and above the limit
Heads ==
    { <<0, 0, 0, 0>>, <<3, 0, 0, 0>>, <<5, 0, 0, 0>>,
      <<0, 0, 64, 6>>, <<1, 0, 64, 6>>, <<1, 250, 0, 5>>,
      <<120, 156, 0, 0>>, <<120, 156, 3, 99>>,
      <<88, 133, 0, 0>>, <<88, 133, 0, 122>> }

\* the two-byte zlib header check of the zlib format: compression method 8,
\* window at most 32K, no preset dictionary, check bits
zlib_header_ok(head) ==
    /\ head[1] % 16 = 8
    /\ head[1] \div 16 <= 7
    /\ (head[2] \div 32) % 2 = 0
    /\ (256 * head[1] + head[2]) % 31 = 0

\* the first block header of a raw deflate stream: block type 3 is reserved,
\* and a stored block (type 0) carries LEN and its complement NLEN in the
\* bytes after the first one
deflate_header_ok(head) ==
    LET btype == (head[1] \div 2) % 4
    IN  /\ btype # 3
        /\ (btype = 0 => head[4] = 255 - head[2])

\* the buffers of the model: the parts agree with the first four bytes
Buffers ==
    { b \in [len : {6, 13}, head : Heads, deflate_tail : Streams,
             deflate_whole : Streams, zlib_whole : ZlibStreams,
             zlib_tail : ZlibStreams, short_status : {"Ok", "BufError"}] :
        /\ (b.zlib_whole.kind # "invalid" => (b.len >= 8 /\ zlib_header_ok(b.head)))
        /\ (b.zlib_tail.kind # "invalid" => (b.len >= 8 /\ b.deflate_tail.kind = "invalid"))
        /\ (b.deflate_whole.kind # "invalid" => deflate_header_ok(b.head)) }

\* Decompress::decompress(data, output, FlushDecompress::Finish) with an
\* output buffer of cap bytes
inflate(stream, cap, short_status) ==
    CASE stream.kind = "invalid" -> [status |-> "Err", total_out |-> 0]
      [] stream.kind = "stream" /\ stream.n <= cap ->
             [status |-> "StreamEnd", total_out |-> stream.n]
      [] OTHER ->
             [status |-> short_status,
              total_out |-> IF stream.n <= cap THEN stream.n ELSE cap]

\* Ok(output): the range the output was inflated from and its length
DecompressOk(from, n) == [res |-> "Ok", from |-> from, len |-> n]

\* Err(HwpError::DecompressionError(..))
DecompressErr(msg) == [res |-> "Err", err |-> "DecompressionError", msg |-> msg]

\* is_hwp_compressed
is_hwp_compressed(b) ==
    IF b.len < 8 THEN FALSE
    ELSE LET uncompressed_size == read_u32(b.head)
             compressed_data_size == b.len - 4
         IN  /\ uncompressed_size > 0
             /\ compressed_data_size > 0
             /\ uncompressed_size < HWP_SIZE_LIMIT

\* decompress_raw_with_size on bytes[4..]
decompress_raw_with_size(b, expected_size) ==
    LET d == inflate(b.deflate_tail, expected_size, b.short_status)
    IN  CASE d.status = "StreamEnd" ->
               IF d.total_out # expected_size
               THEN DecompressErr("Size mismatch")
               ELSE DecompressOk("deflate_tail", d.total_out)
          [] d.status = "Ok" -> DecompressErr("Incomplete decompression")
          [] d.status = "BufError" -> DecompressErr("Buffer size error during decompression")
          [] OTHER -> DecompressErr("Raw deflate decompression failed")

\* decompress_with_zlib_fallback
decompress_with_zlib_fallback(b, expected_size) ==
    IF b.zlib_whole.kind = "stream"
    THEN DecompressOk("zlib_whole", b.zlib_whole.n)
    ELSE IF b.len > 4
         THEN IF b.zlib_tail.kind = "stream"
              THEN DecompressOk("zlib_tail", b.zlib_tail.n)
              ELSE DecompressErr("All decompression methods failed")
         ELSE DecompressErr("All decompression methods failed")

\* decompress_hwp
decompress_hwp(b) ==
    IF b.len < 8 THEN DecompressErr("Data too small for HWP compression format")
    ELSE LET uncompressed_size == read_u32(b.head)
         IN  IF uncompressed_size = 0 THEN DecompressErr("Invalid uncompressed size: 0")
             ELSE IF uncompressed_size > HWP_SIZE_LIMIT
                  THEN DecompressErr("Uncompressed size too large")
                  ELSE LET r == decompress_raw_with_size(b, uncompressed_size)
                       IN  IF r.res = "Ok" THEN r
                           ELSE decompress_with_zlib_fallback(b, uncompressed_size)

\* decompress_raw on the whole buffer
decompress_raw(b) ==
    LET d == inflate(b.deflate_whole, b.len * 10, b.short_status)
    IN  CASE d.status \in {"Ok", "StreamEnd"} -> DecompressOk("deflate_whole", d.total_out)
          [] d.status = "BufError" -> DecompressErr("Buffer too small")
          [] OTHER -> DecompressErr("inflate error")

\* decompress_zlib on the whole buffer
decompress_zlib(b) ==
    IF b.zlib_whole.kind = "stream"
    THEN DecompressOk("zlib_whole", b.zlib_whole.n)
    ELSE DecompressErr("zlib error")

\* mutant of has_zlib_magic: zlib is tried whatever the first two bytes are
has_zlib_magic_any(b) == TRUE

\* the header match of try_decompress_stream
has_zlib_magic(b) ==
    /\ b.len >= 2
    /\ <<b.head[1], b.head[2]>> \in
           { <<120, 156>>, <<120, 218>>, <<120, 1>>, <<120, 94>>, <<120, 222>> }

\* try_decompress_stream
try_decompress_stream(b) ==
    IF is_hwp_compressed(b) /\ decompress_hwp(b).res = "Ok" THEN decompress_hwp(b)
    ELSE IF decompress_raw(b).res = "Ok" THEN decompress_raw(b)
    ELSE IF has_zlib_magic(b) /\ decompress_zlib(b).res = "Ok" THEN decompress_zlib(b)
    ELSE DecompressErr("Failed to decompress stream")

\* the bytes parse_cfb_hwp hands to parse_doc_info / parse_section for a
\* stream: the decompressed output, or the stream's own bytes
stream_data(b) ==
    LET r == try_decompress_stream(b)
    IN  IF r.res = "Ok" THEN r ELSE DecompressOk("raw_bytes", b.len)

InitDecompress ==
    /\ call_fn \in {"decompress_hwp", "parse_cfb_hwp"}
    /\ call_arg \in Buffers
    /\ call_ret = NoReturn

\* one call of decompress_hwp on the buffer
DecompressHwp ==
    /\ call_fn = "decompress_hwp" /\ call_ret = NoReturn
    /\ call_ret' = decompress_hwp(call_arg)
    /\ UNCHANGED <<call_fn, call_arg>>

\* parse_cfb_hwp decoding one DocInfo or BodyText/Section stream
DecodeStream ==
    /\ call_fn = "parse_cfb_hwp" /\ call_ret = NoReturn
    /\ call_ret' = stream_data(call_arg)
    /\ UNCHANGED <<call_fn, call_arg>>

InitDecompressCall == InitDecompress /\ RecIdle /\ GcIdle /\ CfbIdle

NextDecompress ==
    \/ DecompressHwp /\ UNCHANGED <<recVars, gcVars, cfbVars>>
    \/ DecodeStream /\ UNCHANGED <<recVars, gcVars, cfbVars>>

\* a stream buffer and one decompression call on it
SpecDecompress == InitDecompressCall /\ [][NextDecompress]_vars

\* a call of the given function has returned
Returned(fn) == call_fn = fn /\ call_ret # NoReturn

\* the first success of the order the claim gives: custom-framed, raw
\* deflate on the whole buffer, zlib on the whole buffer, zlib on bytes[4..],
\* and the stream's own bytes when all four fail
ClaimedChain(b) ==
    IF decompress_hwp(b).res = "Ok" THEN decompress_hwp(b)
    ELSE IF decompress_raw(b).res = "Ok" THEN decompress_raw(b)
    ELSE IF b.zlib_whole.kind = "stream" THEN DecompressOk("zlib_whole", b.zlib_whole.n)
    ELSE IF b.zlib_tail.kind = "stream" THEN DecompressOk("zlib_tail", b.zlib_tail.n)
    ELSE DecompressOk("raw_bytes", b.len)

\* C19 (as stated): the bytes the document parser goes on with are the
\* output of the first method that succeeds in the order custom-framed, raw
\* deflate on the whole buffer, zlib on the whole buffer, zlib on bytes[4..],
\* and the stream's raw bytes when every method fails.
FallbackChain ==
    Returned("parse_cfb_hwp") => call_ret = ClaimedChain(call_arg)

\* the buffer is at least 8 bytes long and its size hint is above zero and
\* below the limit
Framed(b) == b.len >= 8 /\ read_u32(b.head) > 0 /\ read_u32(b.head) < HWP_SIZE_LIMIT

\* raw inflate of the whole buffer reported the stream end, or stopped short
\* of it with Status::Ok
RawWholeAccepted(b) ==
    \/ b.deflate_whole.kind = "stream"
    \/ b.deflate_whole.kind = "truncated" /\ b.short_status = "Ok"

\* C19 (amended): the zlib attempts on the whole buffer and on bytes[4..]
\* belong to the custom-framed method, which is attempted only on a buffer
\* of at least 8 bytes whose hint is above zero and below 100 MB and which
\* tries, in order, raw deflate of bytes[4..] to exactly the hinted length,
\* zlib on the whole buffer and zlib on bytes[4..]; after it come raw deflate
\* on the whole buffer and, only when the first two bytes are one of the
\* five listed zlib headers, zlib on the whole buffer.  The output of the
\* first success is used, and the stream's raw bytes when none succeeds.
FallbackChainAsBuilt ==
    Returned("parse_cfb_hwp") =>
        LET b == call_arg
        IN  call_ret =
              IF Framed(b) /\ b.deflate_tail = [kind |-> "stream", n |-> read_u32(b.head)]
              THEN DecompressOk("deflate_tail", read_u32(b.head))
              ELSE IF Framed(b) /\ b.zlib_whole.kind = "stream"
              THEN DecompressOk("zlib_whole", b.zlib_whole.n)
              ELSE IF Framed(b) /\ b.zlib_tail.kind = "stream"
              THEN DecompressOk("zlib_tail", b.zlib_tail.n)
              ELSE IF RawWholeAccepted(b)
              THEN DecompressOk("deflate_whole", b.deflate_whole.n)
              ELSE IF <<b.head[1], b.head[2]>> \in
                         { <<120, 156>>, <<120, 218>>, <<120, 1>>, <<120, 94>>, <<120, 222>> }
                      /\ b.zlib_whole.kind = "stream"
              THEN DecompressOk("zlib_whole", b.zlib_whole.n)
              ELSE DecompressOk("raw_bytes", b.len)

\* a stream whose bytes[4..] are a zlib stream but whose hint is zero or
\* too large went on as raw bytes
FallbackChainWitness ==
    /\ Returned("parse_cfb_hwp")
    /\ call_arg.zlib_tail.kind = "stream"
    /\ ~Framed(call_arg)
    /\ call_ret = DecompressOk("raw_bytes", call_arg.len)

\* C20: decompress_hwp returns Ok only with an output whose length equals
\* the 4-byte size hint at the start of the input; an inflated length that
\* disagrees with the hint gives a DecompressionError.
SizeHintAgreement ==
    (Returned("decompress_hwp") /\ call_ret.res = "Ok")
        => call_ret.len = read_u32(call_arg.head)

-----------------------------------------------------------------------------
(* Compression round trip: the three decoders on the encodings of a         *)
(* payload.  A payload is described by its length n and the length c of     *)
(* its raw-deflate encoding, which the encoder decides.                     *)

\* payload lengths 1..MaxPlain, and one long run of equal bytes
MaxPlain == 6
LongRun == 1000

\* the lengths of the raw-deflate encodings of a payload of n bytes: 3
\* bytes for one literal in a fixed-Huffman block, 11 bytes for the long
\* run, 5 bytes of header more than the payload for a stored block
DeflateLens(n) ==
    CASE n = 1 -> {3, 6}
      [] n = LongRun -> {11, n + 5}
      [] OTHER -> (n + 2)..(n + 5)

\* a buffer that holds nothing any decoder accepts, of the given length
Undecodable(length, head) ==
    [len |-> length, head |-> head,
     deflate_tail |-> [kind |-> "invalid", n |-> 0],
     deflate_whole |-> [kind |-> "invalid", n |-> 0],
     zlib_whole |-> [kind |-> "invalid", n |-> 0],
     zlib_tail |-> [kind |-> "invalid", n |-> 0],
     short_status |-> "BufError", plain |-> 0]

\* [4 bytes: payload length, little-endian][raw deflate of the payload], as
\* test_hwp_decompression builds it
encode_custom_framed(n, c, short) ==
    [Undecodable(4 + c, u32_le_bytes(n)) EXCEPT
        !.deflate_tail = [kind |-> "stream", n |-> n],
        !.short_status = short, !.plain = n]

\* DeflateEncoder output for the payload; 99 stands for its first bytes,
\* which the decoders of the round trip do not look at
encode_raw_deflate(n, c, short) ==
    [Undecodable(c, <<99, 99, 99, 99>>) EXCEPT
        !.deflate_whole = [kind |-> "stream", n |-> n],
        !.short_status = short, !.plain = n]

\* ZlibEncoder output for the payload: 78 9C, the deflate stream, Adler-32
encode_zlib(n, c, short) ==
    [Undecodable(c + 6, <<120, 156, 99, 99>>) EXCEPT
        !.zlib_whole = [kind |-> "stream", n |-> n],
        !.short_status = short, !.plain = n]

InitRoundTrip ==
    /\ \E n \in (1..MaxPlain) \cup {LongRun} : \E c \in DeflateLens(n) :
       \E short \in {"Ok", "BufError"} :
           \/ call_fn = "decompress_hwp" /\ call_arg = encode_custom_framed(n, c, short)
           \/ call_fn = "decompress_raw" /\ call_arg = encode_raw_deflate(n, c, short)
           \/ call_fn = "decompress_zlib" /\ call_arg = encode_zlib(n, c, short)
    /\ call_ret = NoReturn
    /\ RecIdle /\ GcIdle /\ CfbIdle

\* one call of decompress_raw on the buffer
DecompressRaw ==
    /\ call_fn = "decompress_raw" /\ call_ret = NoReturn
    /\ call_ret' = decompress_raw(call_arg)
    /\ UNCHANGED <<call_fn, call_arg>>

\* one call of decompress_zlib on the buffer
DecompressZlib ==
    /\ call_fn = "decompress_zlib" /\ call_ret = NoReturn
    /\ call_ret' = decompress_zlib(call_arg)
    /\ UNCHANGED <<call_fn, call_arg>>

NextRoundTrip ==
    \/ DecompressHwp /\ UNCHANGED <<recVars, gcVars, cfbVars>>
    \/ DecompressRaw /\ UNCHANGED <<recVars, gcVars, cfbVars>>
    \/ DecompressZlib /\ UNCHANGED <<recVars, gcVars, cfbVars>>

\* an encoded payload and one decoder call on it
SpecRoundTrip == InitRoundTrip /\ [][NextRoundTrip]_vars

\* the byte range each decoder of the round trip inflates
RoundTripRange ==
    CASE call_fn = "decompress_hwp" -> "deflate_tail"
      [] call_fn = "decompress_raw" -> "deflate_whole"
      [] OTHER -> "zlib_whole"

\* C21: for every non-empty payload, decompress_hwp on the length-framed
\* raw-deflate encoding, decompress_raw on the raw-deflate encoding and zlib
\* decompression of the zlib encoding each return the payload.
CompressionRoundTrip ==
    call_ret # NoReturn
        => call_ret = DecompressOk(RoundTripRange, call_arg.plain)

-----------------------------------------------------------------------------
(* ByteReader: hwp-parser/src/reader/byte_reader.rs.  The reader is         *)
(* call_arg = [data, pos]; call_ret is the result of the last read, with    *)
(* the result of the read before it in prev.                                *)
(* A value wider than 16 bits is kept as its 16-bit limbs, least            *)
(* significant first; a signed value carries its sign in the top limb.      *)

\* the fixed-width reads and their widths in bytes
IntWidth ==
    [read_u8 |-> 1, read_i8 |-> 1, read_u16 |-> 2, read_i16 |-> 2,
     read_u32 |-> 4, read_i32 |-> 4, read_u64 |-> 8, read_i64 |-> 8]

\* the signed reads
SignedReads == {"read_i8", "read_i16", "read_i32", "read_i64"}

\* byteorder's little-endian decoding of the w bytes b for the given read
le_value(op, b) ==
    IF Len(b) = 1
    THEN << IF op \in SignedReads /\ b[1] >= 128 THEN b[1] - 256 ELSE b[1] >>
    ELSE [k \in 1..(Len(b) \div 2) |->
            LET limb == b[2 * k - 1] + 256 * b[2 * k]
            IN  IF op \in SignedReads /\ 2 * k = Len(b) /\ limb >= 32768
                THEN limb - 65536 ELSE limb]

\* HwpError::BufferUnderflow { requested, available }
BufferUnderflow(requested, available) ==
    [res |-> "Err", err |-> "BufferUnderflow", requested |-> requested,
     available |-> available]

\* mutant of read_fixed: a short read consumes what is left
read_fixed_partial(op, data, pos) ==
    IF remaining(data, pos) < IntWidth[op]
    THEN [ret |-> BufferUnderflow(IntWidth[op], remaining(data, pos)), pos |-> Len(data)]
    ELSE [ret |-> [res |-> "Ok", value |-> le_value(op, bytes_at(data, pos, IntWidth[op]))],
          pos |-> pos + IntWidth[op]]

\* read_u8 .. read_i64: the result and the position after the call
read_fixed(op, data, pos) ==
    IF remaining(data, pos) < IntWidth[op]
    THEN [ret |-> BufferUnderflow(IntWidth[op], remaining(data, pos)), pos |-> pos]
    ELSE [ret |-> [res |-> "Ok", value |-> le_value(op, bytes_at(data, pos, IntWidth[op]))],
          pos |-> pos + IntWidth[op]]

\* read_bytes(n)
read_bytes(data, pos, n) ==
    IF remaining(data, pos) < n
    THEN [ret |-> BufferUnderflow(n, remaining(data, pos)), pos |-> pos]
    ELSE [ret |-> [res |-> "Ok", value |-> bytes_at(data, pos, n)], pos |-> pos + n]

\* String::from_utf16 accepts the code units: every high surrogate is
\* followed by a low one and no low surrogate stands alone
RECURSIVE from_utf16_ok(_)
from_utf16_ok(u) ==
    IF u = <<>> THEN TRUE
    ELSE IF u[1] >= 55296 /\ u[1] <= 56319
         THEN Len(u) >= 2 /\ u[2] >= 56320 /\ u[2] <= 57343 /\ from_utf16_ok(Tail(Tail(u)))
         ELSE IF u[1] >= 56320 /\ u[1] <= 57343 THEN FALSE
         ELSE from_utf16_ok(Tail(u))

\* read_utf16_string: the loop reads code units with read_u16()? until one
\* is zero
RECURSIVE read_utf16_string(_, _, _)
read_utf16_string(data, pos, utf16_chars) ==
    LET r == read_fixed("read_u16", data, pos)
    IN  IF r.ret.res = "Err" THEN r
        ELSE IF r.ret.value[1] = 0
             THEN IF from_utf16_ok(utf16_chars)
                  THEN [ret |-> [res |-> "Ok", value |-> utf16_chars], pos |-> r.pos]
                  ELSE [ret |-> [res |-> "Err", err |-> "EncodingError",
                                 requested |-> 0, available |-> 0], pos |-> r.pos]
             ELSE read_utf16_string(data, r.pos, Append(utf16_chars, r.ret.value[1]))

\* the buffers the readers are made over: every prefix of four byte rows
ReaderRows ==
    { <<1, 2, 3, 4, 5, 6, 7, 8, 9>>,
      <<255, 128, 0, 255, 255, 255, 255, 255, 127>>,
      <<65, 0, 66, 0, 0, 0, 67, 0, 68>>,
      <<0, 216, 65, 0, 0, 0, 61, 216, 0>> }

\* the largest n of read_bytes(n)
MaxRequest == 4

\* the summary of a result kept as the next result's prev
Summary(ret) ==
    [res |-> ret.res, width |-> IF ret.res = "Err" THEN ret.requested ELSE 0]

\* ByteReader::new on a buffer
InitReader ==
    /\ call_fn = "ByteReader"
    /\ \E row \in ReaderRows : \E n \in 0..Len(row) :
           call_arg = [data |-> SubSeq(row, 1, n), pos |-> 0]
    /\ call_ret = [op |-> "new", n |-> 0, ret |-> [res |-> "None"],
                   prev |-> [res |-> "None", width |-> 0]]
    /\ RecIdle /\ GcIdle /\ CfbIdle

\* the reader's step for a result r of operation op
ReaderStep(op, n, r) ==
    /\ call_fn = "ByteReader"
    /\ call_arg' = [call_arg EXCEPT !.pos = r.pos]
    /\ call_ret' = [op |-> op, n |-> n, ret |-> r.ret, prev |-> Summary(call_ret.ret)]
    /\ UNCHANGED <<call_fn, recVars, gcVars, cfbVars>>

\* one fixed-width read
ReadInt ==
    \E op \in DOMAIN IntWidth :
        ReaderStep(op, IntWidth[op], read_fixed(op, call_arg.data, call_arg.pos))

\* one read_bytes(n)
ReadBytes ==
    \E n \in 0..MaxRequest :
        ReaderStep("read_bytes", n, read_bytes(call_arg.data, call_arg.pos, n))

\* one read_utf16_string
ReadUtf16String ==
    ReaderStep("read_utf16_string", 0,
               read_utf16_string(call_arg.data, call_arg.pos, <<>>))

NextReader == ReadInt \/ ReadBytes \/ ReadUtf16String

\* a reader and the reads made on it
SpecReader == InitReader /\ [][NextReader]_vars

\* the bytes left in the reader before the step
Available == Len(call_arg.data) - call_arg.pos

\* v is the little-endian value of the bytes b: every 16-bit limb has the
\* two bytes at its place, and only the top limb of a signed read is negative
IsLittleEndian(v, b, signed) ==
    IF Len(b) = 1
    THEN /\ Len(v) = 1
         /\ (v[1] + 256) % 256 = b[1]
         /\ (IF signed THEN v[1] \in -128..127 ELSE v[1] \in 0..255)
    ELSE /\ 2 * Len(v) = Len(b)
         /\ \A k \in 1..Len(v) :
              /\ (v[k] + 65536) % 256 = b[2 * k - 1]
              /\ ((v[k] + 65536) % 65536) \div 256 = b[2 * k]
              /\ (IF signed /\ k = Len(v) THEN v[k] \in -32768..32767
                  ELSE v[k] \in 0..65535)

\* C22: a fixed-width read or read_bytes(n) with fewer bytes left than its
\* width fails with BufferUnderflow{requested = width, available = remaining}
\* and leaves the position where it was; with enough bytes left it returns
\* the little-endian value (the bytes, for read_bytes) and advances the
\* position by exactly the width.
ReadContract ==
    [][ (call_ret'.op \in (DOMAIN IntWidth) \cup {"read_bytes"}) =>
          LET w == call_ret'.n
              b == SubSeq(call_arg.data, call_arg.pos + 1, call_arg.pos + w)
          IN  IF Available < w
              THEN /\ call_ret'.ret = BufferUnderflow(w, Available)
                   /\ call_arg'.pos = call_arg.pos
              ELSE /\ call_ret'.ret.res = "Ok"
                   /\ call_arg'.pos = call_arg.pos + w
                   /\ (IF call_ret'.op = "read_bytes" THEN call_ret'.ret.value = b
                       ELSE /\ w = IntWidth[call_ret'.op]
                            /\ IsLittleEndian(call_ret'.ret.value, b,
                                              call_ret'.op \in SignedReads)) ]_vars

\* a narrower read succeeded right after a read that failed with underflow
ReadContractWitness ==
    /\ call_fn = "ByteReader"
    /\ call_ret.op \in DOMAIN IntWidth
    /\ call_ret.ret.res = "Ok"
    /\ call_ret.prev.res = "Err"
    /\ call_ret.n < call_ret.prev.width

\* the code units from the position up to the first zero unit or the end of
\* the buffer
RECURSIVE UnitsToTerminator(_, _)
UnitsToTerminator(data, pos) ==
    IF Len(data) - pos < 2 THEN <<>>
    ELSE LET u == data[pos + 1] + 256 * data[pos + 2]
         IN  IF u = 0 THEN <<>> ELSE <<u>> \o UnitsToTerminator(data, pos + 2)

\* C23: read_utf16_string returns the code units read so far both when it
\* meets a 0x0000 unit and when it reaches the end of the buffer without
\* one; reaching the end of the buffer is not an error.
Utf16StringRead ==
    [][ call_ret'.op = "read_utf16_string" =>
          /\ call_ret'.ret.res = "Ok"
          /\ call_ret'.ret.value = UnitsToTerminator(call_arg.data, call_arg.pos) ]_vars

-----------------------------------------------------------------------------
(* DirectoryTree::get_children / collect_siblings: cfb/directory.rs.        *)
(* The recursion is run on an explicit stack of frames; a frame is the did  *)
(* argument and the place the call has reached.  The thread's stack holds   *)
(* MaxStack frames, and a call beyond that is a stack overflow, which       *)
(* aborts the process.                                                      *)

MaxEntries == 2
MaxStack == 6

\* 0xFFFFFFFF, as a 32-bit two's-complement number
NOSTREAM == -1

\* DirectoryTree::get(did) finds an entry
get_some(entries, did) == did >= 0 /\ did < Len(entries)

\* the sibling and child ids of the arrays: none, every index, and one index
\* past the end
Dids(n) == {NOSTREAM} \cup (0..n)

InitChildren ==
    /\ call_fn = "get_children"
    /\ \E n \in 1..MaxEntries :
       \E entries \in [1..n -> [left_sibling_did : Dids(n), right_sibling_did : Dids(n)]] :
       \E parent \in [is_storage : BOOLEAN, child_did : Dids(n)] :
           call_arg = [entries |-> entries, parent |-> parent]
    /\ call_ret = [pc |-> "call", stack |-> <<>>, children |-> <<>>]
    /\ RecIdle /\ GcIdle /\ CfbIdle

\* a call of collect_siblings(did) from a frame stack: a new frame, or the
\* overflow of the thread's stack
call_collect(ret, stack, did) ==
    IF Len(stack) >= MaxStack
    THEN [ret EXCEPT !.pc = "overflow"]
    ELSE [ret EXCEPT !.stack = Append(stack, [did |-> did, at |-> "enter"])]

\* the return of the top frame; get_children returns when the last one does
return_collect(ret) ==
    LET rest == SubSeq(ret.stack, 1, Len(ret.stack) - 1)
    IN  [ret EXCEPT !.stack = rest, !.pc = IF rest = <<>> THEN "done" ELSE "collect"]

\* get_children up to its call of collect_siblings
GetChildren ==
    /\ call_fn = "get_children" /\ call_ret.pc = "call"
    /\ call_ret' =
         IF ~call_arg.parent.is_storage THEN [call_ret EXCEPT !.pc = "done"]
         ELSE IF call_arg.parent.child_did # NOSTREAM
              THEN call_collect([call_ret EXCEPT !.pc = "collect"], <<>>,
                                call_arg.parent.child_did)
              ELSE [call_ret EXCEPT !.pc = "done"]
    /\ UNCHANGED <<call_fn, call_arg, recVars, gcVars, cfbVars>>

\* one step of the top collect_siblings frame
CollectSiblings ==
    /\ call_fn = "get_children" /\ call_ret.pc = "collect"
    /\ LET top == call_ret.stack[Len(call_ret.stack)]
           entry == call_arg.entries[top.did + 1]
           at(place) == [call_ret EXCEPT !.stack[Len(call_ret.stack)].at = place]
       IN  call_ret' =
             CASE top.at = "enter" ->
                    IF top.did = NOSTREAM \/ ~get_some(call_arg.entries, top.did)
                    THEN return_collect(call_ret)
                    ELSE IF entry.left_sibling_did # NOSTREAM
                         THEN call_collect(at("left"), at("left").stack,
                                           entry.left_sibling_did)
                         ELSE at("left")
               [] top.at = "left" ->
                    LET pushed == [at("right") EXCEPT
                                      !.children = Append(call_ret.children, top.did)]
                    IN  IF entry.right_sibling_did # NOSTREAM
                        THEN call_collect(pushed, pushed.stack, entry.right_sibling_did)
                        ELSE pushed
               [] OTHER -> return_collect(call_ret)
    /\ UNCHANGED <<call_fn, call_arg, recVars, gcVars, cfbVars>>

NextChildren == GetChildren \/ CollectSiblings

\* a directory entry array and one get_children call on it
SpecChildren == InitChildren /\ [][NextChildren]_vars

\* C24: for every directory entry array, cyclic or self-referencing sibling
\* indices included, get_children does not run away: it visits at most as
\* many entries as the array holds and never exhausts the stack.
TraversalBounded ==
    call_fn = "get_children" =>
        /\ call_ret.pc # "overflow"
        /\ Len(call_ret.children) <= Len(call_arg.entries)

-----------------------------------------------------------------------------
(* BatchProcessor::process_files: hwp-cli/src/batch.rs.  The rayon pool     *)
(* runs the for_each closure for each file on one of parallel_jobs worker   *)
(* threads, in any order.  call_arg is the batch (strategy, jobs, and for   *)
(* each file whether the operation fails at its first and second call);     *)
(* call_ret is the progress of the files and the shared results vector.     *)

MaxFiles == 3
MaxJobs == 2

\* process_single_file: is the Result Ok, given what the operation does at
\* its first and at its second call for the file
process_single_file(fails_first, fails_again, error_strategy) ==
    CASE ~fails_first -> TRUE
      [] error_strategy = "Skip" -> FALSE
      [] error_strategy = "FailFast" -> FALSE
      [] OTHER -> ~fails_again

InitBatch ==
    /\ call_fn = "process_files"
    /\ \E n \in 1..MaxFiles :
       \E fails_first \in SUBSET (1..n) : \E fails_again \in SUBSET fails_first :
       \E strategy \in {"Skip", "FailFast", "Retry"} : \E jobs \in 1..MaxJobs :
           /\ call_arg = [files |-> n, fails_first |-> fails_first,
                          fails_again |-> fails_again,
                          error_strategy |-> strategy, parallel_jobs |-> jobs]
           /\ call_ret = [pc |-> "pool", state |-> [f \in 1..n |-> "pending"],
                          results |-> <<>>, successful |-> 0, failed |-> 0]
    /\ RecIdle /\ GcIdle /\ CfbIdle

\* the files in a given state of progress
FilesIn(st) == { f \in 1..call_arg.files : call_ret.state[f] = st }

\* a free worker thread takes a file and enters the closure
StartFile ==
    /\ call_fn = "process_files" /\ call_ret.pc = "pool"
    /\ Cardinality(FilesIn("running")) < call_arg.parallel_jobs
    /\ \E f \in FilesIn("pending") :
           call_ret' = [call_ret EXCEPT !.state[f] = "running"]
    /\ UNCHANGED <<call_fn, call_arg, recVars, gcVars, cfbVars>>

\* the closure finishes for a file: process_single_file returns and the
\* ProcessResult is pushed under the lock
FinishFile ==
    /\ call_fn = "process_files" /\ call_ret.pc = "pool"
    /\ \E f \in FilesIn("running") :
         LET success == process_single_file(f \in call_arg.fails_first,
                                            f \in call_arg.fails_again,
                                            call_arg.error_strategy)
         IN  call_ret' = [call_ret EXCEPT
                 !.state[f] = "stored",
                 !.results = Append(@, [path |-> f, success |-> success])]
    /\ UNCHANGED <<call_fn, call_arg, recVars, gcVars, cfbVars>>

\* for_each has returned: the results are counted
Aggregate ==
    /\ call_fn = "process_files" /\ call_ret.pc = "pool"
    /\ FilesIn("pending") = {} /\ FilesIn("running") = {}
    /\ LET ok == { i \in 1..Len(call_ret.results) : call_ret.results[i].success }
       IN  call_ret' = [call_ret EXCEPT
               !.pc = "returned",
               !.successful = Cardinality(ok),
               !.failed = Len(call_ret.results) - Cardinality(ok)]
    /\ UNCHANGED <<call_fn, call_arg, recVars, gcVars, cfbVars>>

NextBatch == StartFile \/ FinishFile \/ Aggregate

\* a batch and the threads working through it
SpecBatch == InitBatch /\ [][NextBatch]_vars

\* a failure has been stored for some file
FailureStored ==
    \E i \in 1..Len(call_ret.results) : ~call_ret.results[i].success

\* C25: under FailFast, once the operation has failed on some file no file
\* that had not started is started, in every interleaving of the workers;
\* under Skip every file is processed.
FailFastStopsBatch ==
    /\ [][ (call_arg.error_strategy = "FailFast" /\ FailureStored)
             => \A f \in 1..call_arg.files :
                    call_ret.state[f] = "pending" => call_ret'.state[f] = "pending" ]_vars
    /\ []( (call_fn = "process_files" /\ call_arg.error_strategy = "Skip"
              /\ call_ret.pc = "returned")
             => Len(call_ret.results) = call_arg.files )

-----------------------------------------------------------------------------
(* Properties of the directory array and of listing and lookup              *)

\* every slot of the sectors of a chain, in sector and slot order
RECURSIVE AllSlots(_, _, _)
AllSlots(f, chain, per_sector) ==
    IF chain = <<>> THEN <<>>
    ELSE slots_of(f.sectors[Head(chain) + 1], per_sector)
            \o AllSlots(f, Tail(chain), per_sector)

\* C26: after open, the directory array holds one entry for every 128-byte
\* slot of every sector of the directory's FAT chain, in slot order, unused
\* slots included, so that array index i is directory id i.
DirectorySlots ==
    cfb_state = "open" =>
        directory =
            IF header.first_dir_sector = ENDOFCHAIN THEN <<>>
            ELSE AllSlots(file, get_chain("fat", fat, header.first_dir_sector),
                          sector_size(header) \div DIR_ENTRY_SIZE)

-----------------------------------------------------------------------------
(* Properties of the record decoder over a sequence of calls                *)

\* the 20-bit size field of the header at the reader position
SizeFieldAtPos ==
    (reader_data[reader_pos + 2] \div 16) + 16 * reader_data[reader_pos + 3]
        + 4096 * reader_data[reader_pos + 4]

\* the header length of the record at the reader position
HeaderLenAtPos == IF SizeFieldAtPos = 1048575 THEN 8 ELSE 4

\* C27: in strict mode, a parse_next_record call that returns a record
\* advances the position by exactly the header length (4, or 8 with the
\* extended size) plus the record's size, the record's data is the byte
\* range right after its header, and a record returned right after another
\* starts where that one ended.
FramingInvariant ==
    [][ (calls' = calls + 1 /\ ~enable_recovery /\ result'.res = "Some") =>
          /\ reader_pos' = reader_pos + HeaderLenAtPos + result'.rec.size
          /\ result'.rec.data =
                SubSeq(reader_data, reader_pos + HeaderLenAtPos + 1,
                       reader_pos + HeaderLenAtPos + result'.rec.size)
          /\ Len(result'.rec.data) = result'.rec.size
          /\ (result.res = "Some" => reader_pos = result.pos) ]_vars

\* a second record was returned in strict mode, ending at the end of the
\* buffer
FramingInvariantWitness ==
    /\ calls = 2 /\ ~enable_recovery /\ recovery_count = 0
    /\ result.res = "Some"
    /\ reader_pos = Len(reader_data)
    /\ Len(reader_data) > 4 + result.rec.size

-----------------------------------------------------------------------------
(* A decoder over a whole stream, with its configuration calls.  call_arg   *)
(* is the decoder's buffer and configuration; call_ret is its position,     *)
(* the last returned value, the value returned before it, recovery_count,   *)
(* the number of calls, whether a configuration call was made since the     *)
(* last parse_next_record, and whether the last two parse_next_record calls *)
(* ran under the same configuration.                                        *)

\* the streams: up to two records, and then nothing, a stray byte, or a
\* whole header that declares more data than follows (inline, or with the
\* extended size field missing)
DecoderStreams ==
    { encode_all(recs) \o junk :
        recs \in UNION { [1..n -> DocInfoRecords] : n \in 0..2 },
        junk \in { <<>>, <<17>>, header_bytes(DOC_DATA, 0, 9),
                   header_bytes(DOC_DATA, 0, EXTENDED_SIZE) } }

InitDecoder ==
    /\ call_fn = "RecordParser"
    /\ \E data \in DecoderStreams : \E ctx \in Contexts :
       \E allow \in BOOLEAN : \E recovery \in BOOLEAN :
           call_arg = [data |-> data, context |-> ctx, allow_unknown_tags |-> allow,
                       enable_recovery |-> recovery]
    /\ call_ret = [pos |-> 0, result |-> NoResult, prev |-> NoResult,
                   recovery_count |-> 0, calls |-> 0, reconfigured |-> FALSE,
                   same_config |-> TRUE]
    /\ RecIdle /\ GcIdle /\ CfbIdle

\* RecordParser::parse_next_record on the decoder
DecoderCall ==
    /\ call_fn = "RecordParser" /\ call_ret.calls < MaxCalls
    /\ LET out == parse_next_record(call_arg.data, call_ret.pos, call_arg.context,
                                    call_arg.allow_unknown_tags, call_arg.enable_recovery)
       IN  call_ret' = [pos |-> out.ret.pos, result |-> out.ret, prev |-> call_ret.result,
                        recovery_count |-> call_ret.recovery_count + out.recovered,
                        calls |-> call_ret.calls + 1, reconfigured |-> FALSE,
                        same_config |-> ~call_ret.reconfigured]
    /\ UNCHANGED <<call_fn, call_arg, recVars, gcVars, cfbVars>>

\* RecordParser::enable_recovery, set_context or set_validator between calls
Reconfigure ==
    /\ call_fn = "RecordParser" /\ call_ret.calls > 0 /\ ~call_ret.reconfigured
    /\ \E ctx \in Contexts : \E allow \in BOOLEAN : \E recovery \in BOOLEAN :
           /\ call_arg' = [call_arg EXCEPT !.context = ctx, !.allow_unknown_tags = allow,
                                           !.enable_recovery = recovery]
           /\ call_arg' # call_arg
    /\ call_ret' = [call_ret EXCEPT !.reconfigured = TRUE]
    /\ UNCHANGED <<call_fn, recVars, gcVars, cfbVars>>

NextDecoder == DecoderCall \/ Reconfigure

\* a decoder, its calls and its configuration changes
SpecDecoder == InitDecoder /\ [][NextDecoder]_vars

\* a parse_next_record step of the decoder
DecoderCalled == call_ret'.calls = call_ret.calls + 1

\* C28 (as stated): once parse_next_record has returned Ok(None), every
\* later call on the decoder returns Ok(None) too, in strict and in
\* recovery mode, and recovery_count does not change in those calls.
EndOfStreamAbsorbing ==
    [][ (DecoderCalled /\ call_ret.result.res = "None") =>
          (call_ret'.result.res = "None"
           /\ call_ret'.recovery_count = call_ret.recovery_count) ]_vars

\* C28 (amended): once parse_next_record has returned Ok(None), the next
\* call returns Ok(None) too and leaves recovery_count alone, provided no
\* enable_recovery, set_context or set_validator call was made in between;
\* this holds in strict and in recovery mode.
EndOfStreamAbsorbingSameConfig ==
    [][ (DecoderCalled /\ call_ret.result.res = "None" /\ ~call_ret.reconfigured) =>
          (call_ret'.result.res = "None"
           /\ call_ret'.recovery_count = call_ret.recovery_count) ]_vars

\* in recovery mode the scan gave up with a whole header still ahead of the
\* position it left, and the call after that returned Ok(None) again
EndOfStreamAbsorbingWitness ==
    /\ call_fn = "RecordParser"
    /\ call_arg.enable_recovery /\ call_ret.calls >= 2 /\ call_ret.same_config
    /\ call_ret.prev.res = "None" /\ call_ret.result.res = "None"
    /\ Len(call_arg.data) - call_ret.prev.pos >= 4

-----------------------------------------------------------------------------
(* Listing and lookup of streams *)

\* C29: in every parsed container a name is in list_streams() exactly when
\* has_stream says so, and read_stream of a listed name never fails with
\* "not a stream", also when a storage and a stream carry the same name.
ListingAgreesWithLookup ==
    cfb_state = "open" =>
      LET listed == { list_streams(directory)[k] : k \in 1..Len(list_streams(directory)) }
      IN  /\ \A n \in ReadNames : (n \in listed) <=> has_stream(directory, n)
          /\ (last_read.res = "Err" /\ last_read.name \in listed)
                => last_read.err # InvalidFormat("Entry is not a stream")

-----------------------------------------------------------------------------
(* Sector offsets of read_chain: hwp-parser/src/cfb/fat.rs:129-150          *)

\* `(sector + 1) * self.sector_size` stays within a u32.  A sector number of
\* 2^31 or more is negative here and its product is 2^32 or more for every
\* sector size of at least 2; otherwise the product fits when sector + 1 is
\* at most (2^32 - 1) / sector_size = 65536 * (65536 / sector_size) - 1.
offset_fits_u32(sector, ss) ==
    sector >= 0 /\ sector + 1 <= 65536 * (65536 \div ss) - 1

\* C30: for every FAT and every start sector, each sector of the chain that
\* read_chain follows is a valid index into the table, so its byte offset
\* (s + 1) * sector_size fits in 32 bits; markers and out-of-range start
\* sectors never enter the chain.
ChainSectorsInRange ==
    (gc_table = "fat" /\ gc_pc = "done") =>
      \A i \in 1..Len(gc_chain) :
          /\ ~out_of_table(gc_entries, gc_chain[i])
          /\ \A ss \in {512, 4096} : offset_fits_u32(gc_chain[i], ss)

====
